---- MODULE Spec2Model ----
(***************************************************************************)
(* The 5-stage pipeline visualizer (PipelineVisualizer, parseAssembly,     *)
(* clockTick) as a state machine.  Program text is a sequence of           *)
(* one-character strings, parsed the way parseAssembly parses it; values   *)
(* are JavaScript values (number, NaN, undefined, null).                   *)
(***************************************************************************)
EXTENDS Integers, Sequences, FiniteSets, TLC

(***************************************************************************)
(* Bounds of the model.                                                    *)
(***************************************************************************)
\* longest program (in lines) drawn from LinePool
MaxLen == 3
\* largest increase of a cycles_hw entry that is tried
MaxIncrease == 1
\* clock steps a run is followed for (the cycle counter is unbounded)
MaxCycle == 18

(***************************************************************************)
(* JavaScript values.                                                      *)
(***************************************************************************)
Num(n) == [k |-> "num", n |-> n]
NaN == [k |-> "NaN", n |-> 0]
Undefined == [k |-> "undefined", n |-> 0]
Null == [k |-> "null", n |-> 0]
\* a function object (a method inherited from Object.prototype)
Function == [k |-> "function", n |-> 0]
\* a string that is not the text of a number; which one is not recorded
Text == [k |-> "string", n |-> 0]

IsNum(v) == v.k = "num"

\* a + b on numbers; undefined + n and NaN + n are NaN; a string + n is a string
JsAdd(a, b) == IF IsNum(a) /\ IsNum(b) THEN Num(a.n + b.n)
               ELSE IF a = Text \/ b = Text THEN Text
               ELSE NaN
\* a < n and a >= n for a number n: false when a does not convert to a number
JsLess(a, n) == IsNum(a) /\ a.n < n
JsAtLeast(a, n) == IsNum(a) /\ a.n >= n
\* a - b
JsSub(a, b) == IF IsNum(a) /\ IsNum(b) THEN Num(a.n - b.n) ELSE NaN
\* a === b : NaN differs from itself
StrictEq(a, b) == a = b /\ a # NaN
\* a ?? d : only undefined and null are replaced
Nullish(a, d) == IF a = Undefined \/ a = Null THEN d ELSE a
\* a || d on number-or-undefined: 0, NaN and undefined are falsy
OrElse(a, d) == IF a = Undefined \/ a = Null \/ a = NaN \/ a = Num(0) THEN d ELSE a

(***************************************************************************)
(* Strings: sequences of one-character strings.  A string that is          *)
(* undefined (an array index out of range) is UndefinedStr.                *)
(***************************************************************************)
UndefinedStr == <<"undefined">>

DigitChars == <<"0", "1", "2", "3", "4", "5", "6", "7", "8", "9">>
LowerChars == <<"a", "b", "c", "d", "e", "f", "g", "h", "i", "j", "k", "l", "m",
                "n", "o", "p", "q", "r", "s", "t", "u", "v", "w", "x", "y", "z">>
UpperChars == <<"A", "B", "C", "D", "E", "F", "G", "H", "I", "J", "K", "L", "M",
                "N", "O", "P", "Q", "R", "S", "T", "U", "V", "W", "X", "Y", "Z">>
Range(s) == {s[i] : i \in DOMAIN s}
\* \d
DigitSet == Range(DigitChars)
\* \w
UpperSet == Range(UpperChars)
WordSet == Range(DigitChars) \cup Range(LowerChars) \cup Range(UpperChars) \cup {"_"}
\* \s
SpaceSet == {" ", "\t", "\r", "\n"}
IsDigit(c) == c \in DigitSet
DigitVal(c) == (CHOOSE i \in DOMAIN DigitChars : DigitChars[i] = c) - 1
LowerOf(c) == IF c \in UpperSet
              THEN LowerChars[CHOOSE i \in DOMAIN UpperChars : UpperChars[i] = c]
              ELSE c
\* String.prototype.toLowerCase
toLowerCase(s) == [i \in DOMAIN s |-> LowerOf(s[i])]

Drop(s, n) == SubSeq(s, n + 1, Len(s))
Take(s, n) == SubSeq(s, 1, n)

\* least element of a non-empty set of numbers
Least(S) == CHOOSE i \in S : \A j \in S : i <= j
\* index of the first character of s that is in set, 0 when there is none
FirstIn(s, set) == LET at == {i \in DOMAIN s : s[i] \in set}
                   IN IF at = {} THEN 0 ELSE Least(at)
\* length of the longest prefix of s whose characters are all in set
RunLen(s, set) == LET at == {i \in DOMAIN s : s[i] \notin set}
                  IN IF at = {} THEN Len(s) ELSE Least(at) - 1

\* String.prototype.split(c) for a one-character separator
RECURSIVE SplitChar(_, _)
SplitChar(s, c) == LET i == FirstIn(s, {c})
                   IN IF i = 0 THEN <<s>> ELSE <<Take(s, i - 1)>> \o SplitChar(Drop(s, i), c)

\* String.prototype.split(/\s+/)
RECURSIVE SplitSpaces(_)
SplitSpaces(s) == LET i == FirstIn(s, SpaceSet)
                  IN IF i = 0 THEN <<s>>
                     ELSE LET rest == Drop(s, i - 1)
                          IN <<Take(s, i - 1)>> \o SplitSpaces(Drop(rest, RunLen(rest, SpaceSet)))

\* String.prototype.trim
trim(s) == LET a == Drop(s, RunLen(s, SpaceSet))
               keep == {i \in DOMAIN a : a[i] \notin SpaceSet}
           IN IF keep = {} THEN <<>> ELSE Take(a, CHOOSE i \in keep : \A j \in keep : j <= i)

\* s.replace(/,/g, '')
RECURSIVE RemoveCommas(_)
RemoveCommas(s) == IF s = <<>> THEN <<>>
                   ELSE IF Head(s) = "," THEN RemoveCommas(Tail(s))
                   ELSE <<Head(s)>> \o RemoveCommas(Tail(s))

\* parts[i] of a JavaScript array (0-based); undefined out of range
At(parts, i) == IF i + 1 \in DOMAIN parts THEN parts[i + 1] ELSE UndefinedStr

\* the number a run of decimal digits denotes
RECURSIVE DigitsValue(_)
DigitsValue(s) == IF s = <<>> THEN 0 ELSE 10 * DigitsValue(Take(s, Len(s) - 1)) + DigitVal(s[Len(s)])

\* parseInt(s, 10): leading white space, a sign, then digits; NaN without digits
parseInt(s) ==
    IF s = UndefinedStr THEN NaN
    ELSE LET a == Drop(s, RunLen(s, SpaceSet))
             neg == a # <<>> /\ a[1] = "-"
             b == IF a # <<>> /\ a[1] \in {"-", "+"} THEN Drop(a, 1) ELSE a
             n == RunLen(b, DigitSet)
         IN IF n = 0 THEN NaN
            ELSE Num(IF neg THEN 0 - DigitsValue(Take(b, n)) ELSE DigitsValue(Take(b, n)))

\* start of the leftmost match of /x(\d+)/i in s, 0 when there is none
RegMatchAt(s) == LET at == {i \in 1..(Len(s) - 1) : s[i] \in {"x", "X"} /\ s[i + 1] \in DigitSet}
                 IN IF at = {} THEN 0 ELSE Least(at)

parseReg(s) ==
    IF s = UndefinedStr \/ s = <<>> THEN Undefined
    ELSE LET i == RegMatchAt(s)
         IN IF i = 0 THEN Undefined
            ELSE LET d == Drop(s, i) IN Num(DigitsValue(Take(d, RunLen(d, DigitSet))))

\* /(-?\d+)\((x\d+)\)/i anchored at position i of s: the two groups, or <<>>
MemMatchAt(s, i) ==
    LET a == Drop(s, i - 1)
        sign == IF a # <<>> /\ a[1] = "-" THEN 1 ELSE 0
        b == Drop(a, sign)
        n == RunLen(b, DigitSet)
        c == Drop(b, n)
        m == IF Len(c) >= 2 THEN RunLen(Drop(c, 2), DigitSet) ELSE 0
    IN IF /\ n >= 1
          /\ Len(c) >= 4
          /\ c[1] = "("
          /\ c[2] \in {"x", "X"}
          /\ m >= 1
          /\ Len(c) >= m + 3
          /\ c[m + 3] = ")"
       THEN <<Take(a, sign + n), SubSeq(c, 2, m + 2)>>
       ELSE <<>>

\* the groups of the leftmost match of the memory-operand pattern, or <<>>
MemMatch(s) ==
    IF s = UndefinedStr THEN <<>>
    ELSE LET at == {i \in DOMAIN s : s[i] \in DigitSet \cup {"-"} /\ MemMatchAt(s, i) # <<>>}
         IN IF at = {} THEN <<>> ELSE MemMatchAt(s, Least(at))

\* /^(\w+):/ : the label a line declares, or <<>>
LabelMatch(s) == LET n == RunLen(s, WordSet)
                 IN IF n >= 1 /\ Len(s) > n /\ s[n + 1] = ":" THEN Take(s, n) ELSE <<>>

(***************************************************************************)
(* parseAssembly.                                                          *)
(***************************************************************************)
OpAdd == <<"a", "d", "d">>
OpSub == <<"s", "u", "b">>
OpAddi == <<"a", "d", "d", "i">>
OpLw == <<"l", "w">>
OpSw == <<"s", "w">>
OpBeq == <<"b", "e", "q">>
OpJal == <<"j", "a", "l">>

\* the name of a method every object inherits from Object.prototype
ToStringName == <<"t", "o", "S", "t", "r", "i", "n", "g">>
\* the inherited method names that the program texts of this model use
ObjectPrototypeMethods == {ToStringName}

\* { raw: trimmedLine, op } : every operand field still undefined
BareInstr(raw, op) ==
    [raw |-> raw, op |-> op, rd |-> Undefined, rs1 |-> Undefined, rs2 |-> Undefined,
     imm |-> Undefined, label |-> UndefinedStr, pc |-> Undefined]

\* the lw / sw branch, given the match of the memory operand (<<>> when it fails)
MemOperands(instr, parts, memParts) ==
    IF instr.op = OpSw
    THEN [instr EXCEPT !.imm = IF memParts # <<>> THEN parseInt(memParts[1]) ELSE @,
                       !.rs1 = IF memParts # <<>> THEN parseReg(memParts[2]) ELSE @,
                       !.rs2 = parseReg(At(parts, 1)),
                       !.rd = Undefined]
    ELSE [instr EXCEPT !.imm = IF memParts # <<>> THEN parseInt(memParts[1]) ELSE @,
                       !.rs1 = IF memParts # <<>> THEN parseReg(memParts[2]) ELSE @,
                       !.rd = parseReg(At(parts, 1))]

\* variant of Operands that reads the operands of an unknown opcode as those of add
OperandsByDefault(instr, parts) ==
    IF instr.op = OpAddi
    THEN [instr EXCEPT !.rd = parseReg(At(parts, 1)),
                       !.rs1 = parseReg(At(parts, 2)),
                       !.imm = parseInt(At(parts, 3))]
    ELSE IF instr.op \in {OpLw, OpSw}
    THEN MemOperands(instr, parts, MemMatch(At(parts, 2)))
    ELSE IF instr.op = OpBeq
    THEN [instr EXCEPT !.rs1 = parseReg(At(parts, 1)),
                       !.rs2 = parseReg(At(parts, 2)),
                       !.label = At(parts, 3)]
    ELSE IF instr.op = OpJal
    THEN [instr EXCEPT !.rd = parseReg(At(parts, 1)), !.label = At(parts, 2)]
    ELSE [instr EXCEPT !.rd = parseReg(At(parts, 1)),
                       !.rs1 = parseReg(At(parts, 2)),
                       !.rs2 = parseReg(At(parts, 3))]
\* the if / else-if chain on op that fills the operand fields in
Operands(instr, parts) ==
    IF instr.op \in {OpAdd, OpSub}
    THEN [instr EXCEPT !.rd = parseReg(At(parts, 1)),
                       !.rs1 = parseReg(At(parts, 2)),
                       !.rs2 = parseReg(At(parts, 3))]
    ELSE IF instr.op = OpAddi
    THEN [instr EXCEPT !.rd = parseReg(At(parts, 1)),
                       !.rs1 = parseReg(At(parts, 2)),
                       !.imm = parseInt(At(parts, 3))]
    ELSE IF instr.op \in {OpLw, OpSw}
    THEN MemOperands(instr, parts, MemMatch(At(parts, 2)))
    ELSE IF instr.op = OpBeq
    THEN [instr EXCEPT !.rs1 = parseReg(At(parts, 1)),
                       !.rs2 = parseReg(At(parts, 2)),
                       !.label = At(parts, 3)]
    ELSE IF instr.op = OpJal
    THEN [instr EXCEPT !.rd = parseReg(At(parts, 1)), !.label = At(parts, 2)]
    ELSE instr

\* parts[0].toLowerCase() and the record { raw, op }
Decode(raw, parts) == Operands(BareInstr(raw, toLowerCase(parts[1])), parts)

\* the instruction record of one non-label line (else-branch of the forEach callback)
parseInstr(trimmedLine) == Decode(trimmedLine, SplitSpaces(RemoveCommas(trimmedLine)))

\* labels[name] = index : a later declaration of the same name overwrites
SetLabel(labels, name, index) ==
    [l \in DOMAIN labels \cup {name} |-> IF l = name THEN index ELSE labels[l]]

\* { ...instr, pc: index }
Numbered(instr, index) ==
    [raw |-> instr.raw, op |-> instr.op, rd |-> instr.rd, rs1 |-> instr.rs1, rs2 |-> instr.rs2,
     imm |-> instr.imm, label |-> instr.label, pc |-> Num(index)]

\* the callback on a trimmed line: <<instructions, labels>> after it
parseTrimmed(instrs, labs, trimmedLine, labelMatch) ==
    IF Len(trimmedLine) > 0
    THEN IF labelMatch # <<>>
         THEN <<instrs, SetLabel(labs, labelMatch, Len(instrs))>>
         ELSE <<Append(instrs, Numbered(parseInstr(trimmedLine), Len(instrs))), labs>>
    ELSE <<instrs, labs>>

\* line.split('#')[0].trim()
TrimmedLine(line) == trim(Head(SplitChar(line, "#")))

\* one call of the forEach callback
parseLine(acc, line) ==
    parseTrimmed(acc[1], acc[2], TrimmedLine(line), LabelMatch(TrimmedLine(line)))

\* rawLines.forEach(...), from the accumulator <<instructions, labels>>
RECURSIVE forEachLine(_, _)
forEachLine(acc, rawLines) ==
    IF rawLines = <<>> THEN acc
    ELSE forEachLine(parseLine(acc, Head(rawLines)), Tail(rawLines))

\* { instructions: finalInstructions, labels }
Parsed(acc) == [instructions |-> acc[1], labels |-> acc[2]]

parseAssembly(code) == Parsed(forEachLine(<<<<>>, <<>>>>, SplitChar(code, "\n")))

(***************************************************************************)
(* Numbers of the performance model.  A finite number is kept exactly, as  *)
(* s * (p / q) * 10^e with a sign s and naturals p, q > 0 of any size;     *)
(* zero is kept as Zero.  A natural is the sequence of its digits to the   *)
(* base LimbBase, lowest first, <<>> for 0.  The quotients of zero are     *)
(* Infinity, NegInfinity and NaN.                                          *)
(***************************************************************************)
LimbBase == 100 * 100
Rest(a) == IF a = <<>> THEN <<>> ELSE Tail(a)
Low(a) == IF a = <<>> THEN 0 ELSE Head(a)
Carry(c) == IF c = 0 THEN <<>> ELSE <<c>>
RECURSIVE BigAddC(_, _, _)
BigAddC(a, b, c) ==
    IF a = <<>> /\ b = <<>> THEN Carry(c)
    ELSE <<(Low(a) + Low(b) + c) % LimbBase>>
         \o BigAddC(Rest(a), Rest(b), (Low(a) + Low(b) + c) \div LimbBase)
BigAdd(a, b) == BigAddC(a, b, 0)
RECURSIVE Trimmed(_)
Trimmed(a) == IF a # <<>> /\ a[Len(a)] = 0 THEN Trimmed(SubSeq(a, 1, Len(a) - 1)) ELSE a
\* a - b for a >= b, with the borrow c
RECURSIVE BigSubC(_, _, _)
BigSubC(a, b, c) ==
    IF a = <<>> THEN <<>>
    ELSE <<(Low(a) - Low(b) - c) % LimbBase>>
         \o BigSubC(Rest(a), Rest(b), IF Low(a) - Low(b) - c < 0 THEN 1 ELSE 0)
BigSub(a, b) == Trimmed(BigSubC(a, b, 0))
RECURSIVE BigMulC(_, _, _)
BigMulC(a, d, c) ==
    IF a = <<>> THEN Carry(c)
    ELSE <<(Head(a) * d + c) % LimbBase>> \o BigMulC(Tail(a), d, (Head(a) * d + c) \div LimbBase)
BigMulLimb(a, d) == IF d = 0 THEN <<>> ELSE BigMulC(a, d, 0)
Shifted(a) == IF a = <<>> THEN <<>> ELSE <<0>> \o a
RECURSIVE BigMul(_, _)
BigMul(a, b) ==
    IF a = <<>> \/ b = <<>> THEN <<>>
    ELSE IF a = <<1>> THEN b
    ELSE IF b = <<1>> THEN a
    ELSE BigAdd(BigMulLimb(a, Head(b)), Shifted(BigMul(a, Tail(b))))
\* -1, 0 or 1 as a < b, a = b or a > b
RECURSIVE BigCmp(_, _)
BigCmp(a, b) ==
    IF Len(a) # Len(b) THEN (IF Len(a) < Len(b) THEN -1 ELSE 1)
    ELSE IF a = <<>> THEN 0
    ELSE IF a[Len(a)] # b[Len(b)] THEN (IF a[Len(a)] < b[Len(b)] THEN -1 ELSE 1)
    ELSE BigCmp(SubSeq(a, 1, Len(a) - 1), SubSeq(b, 1, Len(b) - 1))
RECURSIVE Big(_)
Big(n) == IF n = 0 THEN <<>> ELSE <<n % LimbBase>> \o Big(n \div LimbBase)
RECURSIVE BigPow10(_)
BigPow10(n) == IF n = 0 THEN <<1>> ELSE BigMulLimb(BigPow10(n - 1), 10)

Real(s, p, q, e) == [k |-> "real", s |-> s, p |-> p, q |-> q, e |-> e]
Zero == Real(0, <<>>, <<1>>, 0)
Infinity == [k |-> "Infinity", n |-> 0]
NegInfinity == [k |-> "-Infinity", n |-> 0]
IsReal(v) == v.k = "real"
Abs(n) == IF n < 0 THEN 0 - n ELSE n
SignOf(n) == IF n > 0 THEN 1 ELSE IF n < 0 THEN -1 ELSE 0
\* a decimal literal m * 10^e and an integer
Decimal(m, e) == IF m = 0 THEN Zero ELSE Real(SignOf(m), Big(Abs(m)), <<1>>, e)
Whole(n) == Decimal(n, 0)

Sign(v) == IF v.k = "Infinity" THEN 1 ELSE IF v.k = "-Infinity" THEN -1 ELSE v.s
Signed(s) == IF s > 0 THEN Infinity ELSE NegInfinity
Min(a, b) == IF a < b THEN a ELSE b

\* the arithmetic of finite numbers
Scaled(a, b, e) == BigMul(BigMul(a.p, BigPow10(a.e - e)), b.q)
\* x - y or y - x, whichever is not negative, with its sign
Differ(sx, x, y, q, e, c) ==
    IF c = 0 THEN Zero
    ELSE IF c > 0 THEN Real(sx, BigSub(x, y), q, e)
    ELSE Real(0 - sx, BigSub(y, x), q, e)
AddScaled(a, b, x, y, q, e) ==
    IF a.s = 0 THEN b
    ELSE IF b.s = 0 THEN a
    ELSE IF a.s = b.s THEN Real(a.s, BigAdd(x, y), q, e)
    ELSE Differ(a.s, x, y, q, e, BigCmp(x, y))
AddAt(a, b, e) == AddScaled(a, b, Scaled(a, b, e), Scaled(b, a, e), BigMul(a.q, b.q), e)
Add(a, b) == AddAt(a, b, Min(a.e, b.e))
Neg(a) == Real(0 - a.s, a.p, a.q, a.e)
Mul(a, b) == IF a.s = 0 \/ b.s = 0 THEN Zero
             ELSE Real(a.s * b.s, BigMul(a.p, b.p), BigMul(a.q, b.q), a.e + b.e)
\* 1 / b for b # 0
Inverse(b) == Real(b.s, b.q, b.p, 0 - b.e)

\* a + b, a - b, a * b, a / b and a > b of JavaScript
Plus(a, b) == IF a = NaN \/ b = NaN THEN NaN
              ELSE IF IsReal(a) /\ IsReal(b) THEN Add(a, b)
              ELSE IF IsReal(a) THEN b
              ELSE IF IsReal(b) \/ a = b THEN a
              ELSE NaN
Minus(a, b) == IF a = NaN \/ b = NaN THEN NaN
               ELSE IF IsReal(b) THEN Plus(a, Neg(b))
               ELSE Plus(a, Signed(0 - Sign(b)))
Times(a, b) == IF a = NaN \/ b = NaN THEN NaN
               ELSE IF IsReal(a) /\ IsReal(b) THEN Mul(a, b)
               ELSE IF Sign(a) = 0 \/ Sign(b) = 0 THEN NaN
               ELSE Signed(Sign(a) * Sign(b))
Divide(a, b) == IF a = NaN \/ b = NaN THEN NaN
                ELSE IF IsReal(a) /\ IsReal(b)
                     THEN IF Sign(b) # 0 THEN Mul(a, Inverse(b))
                          ELSE IF Sign(a) = 0 THEN NaN
                          ELSE Signed(Sign(a))
                ELSE IF IsReal(b) THEN (IF Sign(b) < 0 THEN Signed(0 - Sign(a)) ELSE a)
                ELSE IF IsReal(a) THEN Zero
                ELSE NaN
\* the sign of a - b for numbers other than NaN: equal infinities compare equal
Compare(a, b) == IF a = b THEN 0 ELSE Sign(Minus(a, b))
Greater(a, b) == a # NaN /\ b # NaN /\ Compare(a, b) = 1
Less(a, b) == a # NaN /\ b # NaN /\ Compare(a, b) = -1
\* a === b on numbers
Same(a, b) == a # NaN /\ b # NaN /\ Compare(a, b) = 0
IsZero(a) == Same(a, Zero)

(***************************************************************************)
(* HardwareEmulation: boards, profiles and the instruction mix.            *)
(***************************************************************************)
\* the boards and their DVFS profiles
boards ==
    "pynq-z2" :>
    [name |-> "PYNQ-Z2", family |-> "Xilinx Zynq-7000",
     profiles |-> [
        performance |->
           [name |-> "Performance",
            riscv_clk_mhz |-> Whole(125),
            arm_clk_mhz |-> Whole(780),
            energy_per_cycle_hw |->
                ("mac" :> Decimal(47, -1) @@ "relu" :> Decimal(16, -1) @@ "conv2d.3x3" :> Whole(13)
                @@ "dwconv.3x3" :> Decimal(103, -1) @@ "maxpool.2x2" :> Whole(6) @@ "sigmoid" :> Whole(23)
                @@ "tanh" :> Whole(23) @@ "fadd.s" :> Decimal(12, -1) @@ "fsub.s" :> Decimal(12, -1)
                @@ "fmul.s" :> Decimal(39, -1) @@ "fdiv.s" :> Whole(16) @@ "flw" :> Decimal(78, -1)
                @@ "fsw" :> Decimal(78, -1) @@ "lw" :> Decimal(62, -1) @@ "sw" :> Decimal(62, -1)
                @@ "beq" :> Decimal(78, -2) @@ "jal" :> Decimal(94, -2) @@ "addi" :> Decimal(62, -2)
                @@ "default" :> Decimal(78, -2)),
            energy_per_cycle_sw |-> Whole(29),
            static_power_hw_mw |-> Whole(150),
            static_power_sw_mw |-> Whole(250),
            l1_cache_hit_rate |-> Decimal(98, -2),
            l1_miss_penalty_cycles |-> Whole(40),
            dram_energy_per_access_pj |-> Whole(650),
            branch_predictor_accuracy |-> Decimal(92, -2),
            branch_mispredict_penalty_cycles |-> Whole(3),
            cycles_hw |->
                ("mac" :> Whole(1) @@ "relu" :> Whole(1) @@ "sigmoid" :> Whole(4)
                @@ "tanh" :> Whole(4) @@ "conv2d.3x3" :> Whole(3) @@ "dwconv.3x3" :> Whole(3)
                @@ "maxpool.2x2" :> Whole(2) @@ "fadd.s" :> Whole(2) @@ "fsub.s" :> Whole(2)
                @@ "fmul.s" :> Whole(3) @@ "fdiv.s" :> Whole(12) @@ "flw" :> Whole(2)
                @@ "fsw" :> Whole(1) @@ "lw" :> Whole(2) @@ "sw" :> Whole(1)
                @@ "beq" :> Whole(1) @@ "jal" :> Whole(1) @@ "addi" :> Whole(1)
                @@ "add" :> Whole(1) @@ "sub" :> Whole(1) @@ "default" :> Whole(1))],
        balanced |->
           [name |-> "Balanced",
            riscv_clk_mhz |-> Whole(100),
            arm_clk_mhz |-> Whole(650),
            energy_per_cycle_hw |->
                ("mac" :> Whole(3) @@ "relu" :> Whole(1) @@ "conv2d.3x3" :> Decimal(833, -2)
                @@ "dwconv.3x3" :> Decimal(667, -2) @@ "maxpool.2x2" :> Whole(4) @@ "sigmoid" :> Whole(15)
                @@ "tanh" :> Whole(15) @@ "fadd.s" :> Decimal(8, -1) @@ "fsub.s" :> Decimal(8, -1)
                @@ "fmul.s" :> Decimal(25, -1) @@ "fdiv.s" :> Whole(10) @@ "flw" :> Whole(5)
                @@ "fsw" :> Whole(5) @@ "lw" :> Whole(4) @@ "sw" :> Whole(4)
                @@ "beq" :> Decimal(5, -1) @@ "jal" :> Decimal(6, -1) @@ "addi" :> Decimal(4, -1)
                @@ "default" :> Decimal(5, -1)),
            energy_per_cycle_sw |-> Whole(20),
            static_power_hw_mw |-> Whole(100),
            static_power_sw_mw |-> Whole(180),
            l1_cache_hit_rate |-> Decimal(97, -2),
            l1_miss_penalty_cycles |-> Whole(42),
            dram_energy_per_access_pj |-> Whole(680),
            branch_predictor_accuracy |-> Decimal(90, -2),
            branch_mispredict_penalty_cycles |-> Whole(3),
            cycles_hw |->
                ("mac" :> Whole(1) @@ "relu" :> Whole(1) @@ "sigmoid" :> Whole(4)
                @@ "tanh" :> Whole(4) @@ "conv2d.3x3" :> Whole(3) @@ "dwconv.3x3" :> Whole(3)
                @@ "maxpool.2x2" :> Whole(2) @@ "fadd.s" :> Whole(2) @@ "fsub.s" :> Whole(2)
                @@ "fmul.s" :> Whole(3) @@ "fdiv.s" :> Whole(12) @@ "flw" :> Whole(2)
                @@ "fsw" :> Whole(1) @@ "lw" :> Whole(2) @@ "sw" :> Whole(1)
                @@ "beq" :> Whole(1) @@ "jal" :> Whole(1) @@ "addi" :> Whole(1)
                @@ "add" :> Whole(1) @@ "sub" :> Whole(1) @@ "default" :> Whole(1))],
        low_power |->
           [name |-> "Low Power",
            riscv_clk_mhz |-> Whole(75),
            arm_clk_mhz |-> Whole(520),
            energy_per_cycle_hw |->
                ("mac" :> Decimal(17, -1) @@ "relu" :> Decimal(56, -2) @@ "conv2d.3x3" :> Decimal(467, -2)
                @@ "dwconv.3x3" :> Decimal(367, -2) @@ "maxpool.2x2" :> Decimal(225, -2) @@ "sigmoid" :> Decimal(84, -1)
                @@ "tanh" :> Decimal(84, -1) @@ "fadd.s" :> Decimal(45, -2) @@ "fsub.s" :> Decimal(45, -2)
                @@ "fmul.s" :> Decimal(14, -1) @@ "fdiv.s" :> Decimal(56, -1) @@ "flw" :> Decimal(28, -1)
                @@ "fsw" :> Decimal(28, -1) @@ "lw" :> Decimal(22, -1) @@ "sw" :> Decimal(22, -1)
                @@ "beq" :> Decimal(28, -2) @@ "jal" :> Decimal(34, -2) @@ "addi" :> Decimal(22, -2)
                @@ "default" :> Decimal(28, -2)),
            energy_per_cycle_sw |-> Whole(13),
            static_power_hw_mw |-> Whole(70),
            static_power_sw_mw |-> Whole(120),
            l1_cache_hit_rate |-> Decimal(96, -2),
            l1_miss_penalty_cycles |-> Whole(45),
            dram_energy_per_access_pj |-> Whole(720),
            branch_predictor_accuracy |-> Decimal(88, -2),
            branch_mispredict_penalty_cycles |-> Whole(3),
            cycles_hw |->
                ("mac" :> Whole(1) @@ "relu" :> Whole(1) @@ "sigmoid" :> Whole(4)
                @@ "tanh" :> Whole(4) @@ "conv2d.3x3" :> Whole(3) @@ "dwconv.3x3" :> Whole(3)
                @@ "maxpool.2x2" :> Whole(2) @@ "fadd.s" :> Whole(2) @@ "fsub.s" :> Whole(2)
                @@ "fmul.s" :> Whole(3) @@ "fdiv.s" :> Whole(12) @@ "flw" :> Whole(2)
                @@ "fsw" :> Whole(1) @@ "lw" :> Whole(2) @@ "sw" :> Whole(1)
                @@ "beq" :> Whole(1) @@ "jal" :> Whole(1) @@ "addi" :> Whole(1)
                @@ "add" :> Whole(1) @@ "sub" :> Whole(1) @@ "default" :> Whole(1))]]]
 @@ "arty-a7" :>
    [name |-> "Arty A7-100T", family |-> "Xilinx Artix-7",
     profiles |-> [
        performance |->
           [name |-> "Performance",
            riscv_clk_mhz |-> Whole(125),
            arm_clk_mhz |-> Whole(500),
            energy_per_cycle_hw |->
                ("mac" :> Decimal(37, -1) @@ "relu" :> Decimal(12, -1) @@ "conv2d.3x3" :> Decimal(103, -1)
                @@ "dwconv.3x3" :> Decimal(833, -2) @@ "maxpool.2x2" :> Decimal(495, -2) @@ "sigmoid" :> Whole(19)
                @@ "tanh" :> Whole(19) @@ "fadd.s" :> Decimal(99, -2) @@ "fsub.s" :> Decimal(99, -2)
                @@ "fmul.s" :> Decimal(31, -1) @@ "fdiv.s" :> Whole(12) @@ "flw" :> Decimal(62, -1)
                @@ "fsw" :> Decimal(62, -1) @@ "lw" :> Whole(5) @@ "sw" :> Whole(5)
                @@ "beq" :> Decimal(62, -2) @@ "jal" :> Decimal(75, -2) @@ "addi" :> Decimal(5, -1)
                @@ "default" :> Decimal(62, -2)),
            energy_per_cycle_sw |-> Whole(23),
            static_power_hw_mw |-> Whole(120),
            static_power_sw_mw |-> Whole(180),
            l1_cache_hit_rate |-> Decimal(96, -2),
            l1_miss_penalty_cycles |-> Whole(50),
            dram_energy_per_access_pj |-> Whole(800),
            branch_predictor_accuracy |-> Decimal(90, -2),
            branch_mispredict_penalty_cycles |-> Whole(4),
            cycles_hw |->
                ("mac" :> Whole(1) @@ "relu" :> Whole(1) @@ "sigmoid" :> Whole(5)
                @@ "tanh" :> Whole(5) @@ "conv2d.3x3" :> Whole(4) @@ "dwconv.3x3" :> Whole(4)
                @@ "maxpool.2x2" :> Whole(3) @@ "fadd.s" :> Whole(3) @@ "fsub.s" :> Whole(3)
                @@ "fmul.s" :> Whole(4) @@ "fdiv.s" :> Whole(14) @@ "flw" :> Whole(3)
                @@ "fsw" :> Whole(2) @@ "lw" :> Whole(3) @@ "sw" :> Whole(2)
                @@ "beq" :> Whole(1) @@ "jal" :> Whole(1) @@ "addi" :> Whole(1)
                @@ "add" :> Whole(1) @@ "sub" :> Whole(1) @@ "default" :> Whole(1))],
        balanced |->
           [name |-> "Balanced",
            riscv_clk_mhz |-> Whole(100),
            arm_clk_mhz |-> Whole(400),
            energy_per_cycle_hw |->
                ("mac" :> Decimal(24, -1) @@ "relu" :> Decimal(8, -1) @@ "conv2d.3x3" :> Decimal(667, -2)
                @@ "dwconv.3x3" :> Decimal(533, -2) @@ "maxpool.2x2" :> Decimal(32, -1) @@ "sigmoid" :> Whole(12)
                @@ "tanh" :> Whole(12) @@ "fadd.s" :> Decimal(64, -2) @@ "fsub.s" :> Decimal(64, -2)
                @@ "fmul.s" :> Whole(2) @@ "fdiv.s" :> Whole(8) @@ "flw" :> Whole(4)
                @@ "fsw" :> Whole(4) @@ "lw" :> Decimal(32, -1) @@ "sw" :> Decimal(32, -1)
                @@ "beq" :> Decimal(4, -1) @@ "jal" :> Decimal(48, -2) @@ "addi" :> Decimal(32, -2)
                @@ "default" :> Decimal(4, -1)),
            energy_per_cycle_sw |-> Whole(16),
            static_power_hw_mw |-> Whole(80),
            static_power_sw_mw |-> Whole(130),
            l1_cache_hit_rate |-> Decimal(95, -2),
            l1_miss_penalty_cycles |-> Whole(52),
            dram_energy_per_access_pj |-> Whole(840),
            branch_predictor_accuracy |-> Decimal(88, -2),
            branch_mispredict_penalty_cycles |-> Whole(4),
            cycles_hw |->
                ("mac" :> Whole(1) @@ "relu" :> Whole(1) @@ "sigmoid" :> Whole(5)
                @@ "tanh" :> Whole(5) @@ "conv2d.3x3" :> Whole(4) @@ "dwconv.3x3" :> Whole(4)
                @@ "maxpool.2x2" :> Whole(3) @@ "fadd.s" :> Whole(3) @@ "fsub.s" :> Whole(3)
                @@ "fmul.s" :> Whole(4) @@ "fdiv.s" :> Whole(14) @@ "flw" :> Whole(3)
                @@ "fsw" :> Whole(2) @@ "lw" :> Whole(3) @@ "sw" :> Whole(2)
                @@ "beq" :> Whole(1) @@ "jal" :> Whole(1) @@ "addi" :> Whole(1)
                @@ "add" :> Whole(1) @@ "sub" :> Whole(1) @@ "default" :> Whole(1))],
        low_power |->
           [name |-> "Low Power",
            riscv_clk_mhz |-> Whole(75),
            arm_clk_mhz |-> Whole(320),
            energy_per_cycle_hw |->
                ("mac" :> Decimal(13, -1) @@ "relu" :> Decimal(45, -2) @@ "conv2d.3x3" :> Decimal(367, -2)
                @@ "dwconv.3x3" :> Whole(3) @@ "maxpool.2x2" :> Decimal(18, -1) @@ "sigmoid" :> Decimal(67, -1)
                @@ "tanh" :> Decimal(67, -1) @@ "fadd.s" :> Decimal(36, -2) @@ "fsub.s" :> Decimal(36, -2)
                @@ "fmul.s" :> Decimal(11, -1) @@ "fdiv.s" :> Decimal(45, -1) @@ "flw" :> Decimal(22, -1)
                @@ "fsw" :> Decimal(22, -1) @@ "lw" :> Decimal(18, -1) @@ "sw" :> Decimal(18, -1)
                @@ "beq" :> Decimal(22, -2) @@ "jal" :> Decimal(27, -2) @@ "addi" :> Decimal(18, -2)
                @@ "default" :> Decimal(22, -2)),
            energy_per_cycle_sw |-> Whole(10),
            static_power_hw_mw |-> Whole(50),
            static_power_sw_mw |-> Whole(90),
            l1_cache_hit_rate |-> Decimal(94, -2),
            l1_miss_penalty_cycles |-> Whole(55),
            dram_energy_per_access_pj |-> Whole(880),
            branch_predictor_accuracy |-> Decimal(85, -2),
            branch_mispredict_penalty_cycles |-> Whole(4),
            cycles_hw |->
                ("mac" :> Whole(1) @@ "relu" :> Whole(1) @@ "sigmoid" :> Whole(5)
                @@ "tanh" :> Whole(5) @@ "conv2d.3x3" :> Whole(4) @@ "dwconv.3x3" :> Whole(4)
                @@ "maxpool.2x2" :> Whole(3) @@ "fadd.s" :> Whole(3) @@ "fsub.s" :> Whole(3)
                @@ "fmul.s" :> Whole(4) @@ "fdiv.s" :> Whole(14) @@ "flw" :> Whole(3)
                @@ "fsw" :> Whole(2) @@ "lw" :> Whole(3) @@ "sw" :> Whole(2)
                @@ "beq" :> Whole(1) @@ "jal" :> Whole(1) @@ "addi" :> Whole(1)
                @@ "add" :> Whole(1) @@ "sub" :> Whole(1) @@ "default" :> Whole(1))]]]
 @@ "basys3" :>
    [name |-> "Basys 3", family |-> "Xilinx Artix-7",
     profiles |-> [
        performance |->
           [name |-> "Performance",
            riscv_clk_mhz |-> Whole(125),
            arm_clk_mhz |-> Whole(500),
            energy_per_cycle_hw |->
                ("mac" :> Decimal(33, -1) @@ "relu" :> Decimal(11, -1) @@ "conv2d.3x3" :> Decimal(933, -2)
                @@ "dwconv.3x3" :> Decimal(733, -2) @@ "maxpool.2x2" :> Decimal(44, -1) @@ "sigmoid" :> Whole(17)
                @@ "tanh" :> Whole(17) @@ "fadd.s" :> Decimal(88, -2) @@ "fsub.s" :> Decimal(88, -2)
                @@ "fmul.s" :> Decimal(28, -1) @@ "fdiv.s" :> Whole(11) @@ "flw" :> Decimal(55, -1)
                @@ "fsw" :> Decimal(55, -1) @@ "lw" :> Decimal(44, -1) @@ "sw" :> Decimal(44, -1)
                @@ "beq" :> Decimal(55, -2) @@ "jal" :> Decimal(66, -2) @@ "addi" :> Decimal(44, -2)
                @@ "default" :> Decimal(55, -2)),
            energy_per_cycle_sw |-> Whole(20),
            static_power_hw_mw |-> Whole(110),
            static_power_sw_mw |-> Whole(170),
            l1_cache_hit_rate |-> Decimal(96, -2),
            l1_miss_penalty_cycles |-> Whole(50),
            dram_energy_per_access_pj |-> Whole(800),
            branch_predictor_accuracy |-> Decimal(90, -2),
            branch_mispredict_penalty_cycles |-> Whole(4),
            cycles_hw |->
                ("mac" :> Whole(1) @@ "relu" :> Whole(1) @@ "sigmoid" :> Whole(5)
                @@ "tanh" :> Whole(5) @@ "conv2d.3x3" :> Whole(4) @@ "dwconv.3x3" :> Whole(4)
                @@ "maxpool.2x2" :> Whole(3) @@ "fadd.s" :> Whole(3) @@ "fsub.s" :> Whole(3)
                @@ "fmul.s" :> Whole(4) @@ "fdiv.s" :> Whole(14) @@ "flw" :> Whole(3)
                @@ "fsw" :> Whole(2) @@ "lw" :> Whole(3) @@ "sw" :> Whole(2)
                @@ "beq" :> Whole(1) @@ "jal" :> Whole(1) @@ "addi" :> Whole(1)
                @@ "add" :> Whole(1) @@ "sub" :> Whole(1) @@ "default" :> Whole(1))],
        balanced |->
           [name |-> "Balanced",
            riscv_clk_mhz |-> Whole(100),
            arm_clk_mhz |-> Whole(400),
            energy_per_cycle_hw |->
                ("mac" :> Decimal(21, -1) @@ "relu" :> Decimal(7, -1) @@ "conv2d.3x3" :> Whole(6)
                @@ "dwconv.3x3" :> Decimal(467, -2) @@ "maxpool.2x2" :> Decimal(28, -1) @@ "sigmoid" :> Whole(11)
                @@ "tanh" :> Whole(11) @@ "fadd.s" :> Decimal(56, -2) @@ "fsub.s" :> Decimal(56, -2)
                @@ "fmul.s" :> Decimal(18, -1) @@ "fdiv.s" :> Whole(7) @@ "flw" :> Decimal(35, -1)
                @@ "fsw" :> Decimal(35, -1) @@ "lw" :> Decimal(28, -1) @@ "sw" :> Decimal(28, -1)
                @@ "beq" :> Decimal(35, -2) @@ "jal" :> Decimal(42, -2) @@ "addi" :> Decimal(28, -2)
                @@ "default" :> Decimal(35, -2)),
            energy_per_cycle_sw |-> Whole(14),
            static_power_hw_mw |-> Whole(75),
            static_power_sw_mw |-> Whole(120),
            l1_cache_hit_rate |-> Decimal(95, -2),
            l1_miss_penalty_cycles |-> Whole(52),
            dram_energy_per_access_pj |-> Whole(840),
            branch_predictor_accuracy |-> Decimal(88, -2),
            branch_mispredict_penalty_cycles |-> Whole(4),
            cycles_hw |->
                ("mac" :> Whole(1) @@ "relu" :> Whole(1) @@ "sigmoid" :> Whole(5)
                @@ "tanh" :> Whole(5) @@ "conv2d.3x3" :> Whole(4) @@ "dwconv.3x3" :> Whole(4)
                @@ "maxpool.2x2" :> Whole(3) @@ "fadd.s" :> Whole(3) @@ "fsub.s" :> Whole(3)
                @@ "fmul.s" :> Whole(4) @@ "fdiv.s" :> Whole(14) @@ "flw" :> Whole(3)
                @@ "fsw" :> Whole(2) @@ "lw" :> Whole(3) @@ "sw" :> Whole(2)
                @@ "beq" :> Whole(1) @@ "jal" :> Whole(1) @@ "addi" :> Whole(1)
                @@ "add" :> Whole(1) @@ "sub" :> Whole(1) @@ "default" :> Whole(1))],
        low_power |->
           [name |-> "Low Power",
            riscv_clk_mhz |-> Whole(75),
            arm_clk_mhz |-> Whole(320),
            energy_per_cycle_hw |->
                ("mac" :> Decimal(12, -1) @@ "relu" :> Decimal(39, -2) @@ "conv2d.3x3" :> Decimal(327, -2)
                @@ "dwconv.3x3" :> Decimal(26, -1) @@ "maxpool.2x2" :> Decimal(155, -2) @@ "sigmoid" :> Decimal(59, -1)
                @@ "tanh" :> Decimal(59, -1) @@ "fadd.s" :> Decimal(31, -2) @@ "fsub.s" :> Decimal(31, -2)
                @@ "fmul.s" :> Decimal(98, -2) @@ "fdiv.s" :> Decimal(39, -1) @@ "flw" :> Whole(2)
                @@ "fsw" :> Whole(2) @@ "lw" :> Decimal(16, -1) @@ "sw" :> Decimal(16, -1)
                @@ "beq" :> Decimal(2, -1) @@ "jal" :> Decimal(24, -2) @@ "addi" :> Decimal(16, -2)
                @@ "default" :> Decimal(2, -1)),
            energy_per_cycle_sw |-> Whole(9),
            static_power_hw_mw |-> Whole(45),
            static_power_sw_mw |-> Whole(80),
            l1_cache_hit_rate |-> Decimal(94, -2),
            l1_miss_penalty_cycles |-> Whole(55),
            dram_energy_per_access_pj |-> Whole(880),
            branch_predictor_accuracy |-> Decimal(85, -2),
            branch_mispredict_penalty_cycles |-> Whole(4),
            cycles_hw |->
                ("mac" :> Whole(1) @@ "relu" :> Whole(1) @@ "sigmoid" :> Whole(5)
                @@ "tanh" :> Whole(5) @@ "conv2d.3x3" :> Whole(4) @@ "dwconv.3x3" :> Whole(4)
                @@ "maxpool.2x2" :> Whole(3) @@ "fadd.s" :> Whole(3) @@ "fsub.s" :> Whole(3)
                @@ "fmul.s" :> Whole(4) @@ "fdiv.s" :> Whole(14) @@ "flw" :> Whole(3)
                @@ "fsw" :> Whole(2) @@ "lw" :> Whole(3) @@ "sw" :> Whole(2)
                @@ "beq" :> Whole(1) @@ "jal" :> Whole(1) @@ "addi" :> Whole(1)
                @@ "add" :> Whole(1) @@ "sub" :> Whole(1) @@ "default" :> Whole(1))]]]
 @@ "zybo-z7" :>
    [name |-> "Zybo Z7-20", family |-> "Xilinx Zynq-7000",
     profiles |-> [
        performance |->
           [name |-> "Performance",
            riscv_clk_mhz |-> Whole(125),
            arm_clk_mhz |-> Whole(780),
            energy_per_cycle_hw |->
                ("mac" :> Decimal(47, -1) @@ "relu" :> Decimal(16, -1) @@ "conv2d.3x3" :> Whole(13)
                @@ "dwconv.3x3" :> Decimal(103, -1) @@ "maxpool.2x2" :> Whole(6) @@ "sigmoid" :> Whole(23)
                @@ "tanh" :> Whole(23) @@ "fadd.s" :> Decimal(12, -1) @@ "fsub.s" :> Decimal(12, -1)
                @@ "fmul.s" :> Decimal(39, -1) @@ "fdiv.s" :> Whole(16) @@ "flw" :> Decimal(78, -1)
                @@ "fsw" :> Decimal(78, -1) @@ "lw" :> Decimal(62, -1) @@ "sw" :> Decimal(62, -1)
                @@ "beq" :> Decimal(78, -2) @@ "jal" :> Decimal(94, -2) @@ "addi" :> Decimal(62, -2)
                @@ "default" :> Decimal(78, -2)),
            energy_per_cycle_sw |-> Whole(29),
            static_power_hw_mw |-> Whole(150),
            static_power_sw_mw |-> Whole(250),
            l1_cache_hit_rate |-> Decimal(98, -2),
            l1_miss_penalty_cycles |-> Whole(40),
            dram_energy_per_access_pj |-> Whole(650),
            branch_predictor_accuracy |-> Decimal(92, -2),
            branch_mispredict_penalty_cycles |-> Whole(3),
            cycles_hw |->
                ("mac" :> Whole(1) @@ "relu" :> Whole(1) @@ "sigmoid" :> Whole(4)
                @@ "tanh" :> Whole(4) @@ "conv2d.3x3" :> Whole(3) @@ "dwconv.3x3" :> Whole(3)
                @@ "maxpool.2x2" :> Whole(2) @@ "fadd.s" :> Whole(2) @@ "fsub.s" :> Whole(2)
                @@ "fmul.s" :> Whole(3) @@ "fdiv.s" :> Whole(12) @@ "flw" :> Whole(2)
                @@ "fsw" :> Whole(1) @@ "lw" :> Whole(2) @@ "sw" :> Whole(1)
                @@ "beq" :> Whole(1) @@ "jal" :> Whole(1) @@ "addi" :> Whole(1)
                @@ "add" :> Whole(1) @@ "sub" :> Whole(1) @@ "default" :> Whole(1))],
        balanced |->
           [name |-> "Balanced",
            riscv_clk_mhz |-> Whole(100),
            arm_clk_mhz |-> Whole(650),
            energy_per_cycle_hw |->
                ("mac" :> Whole(3) @@ "relu" :> Whole(1) @@ "conv2d.3x3" :> Decimal(833, -2)
                @@ "dwconv.3x3" :> Decimal(667, -2) @@ "maxpool.2x2" :> Whole(4) @@ "sigmoid" :> Whole(15)
                @@ "tanh" :> Whole(15) @@ "fadd.s" :> Decimal(8, -1) @@ "fsub.s" :> Decimal(8, -1)
                @@ "fmul.s" :> Decimal(25, -1) @@ "fdiv.s" :> Whole(10) @@ "flw" :> Whole(5)
                @@ "fsw" :> Whole(5) @@ "lw" :> Whole(4) @@ "sw" :> Whole(4)
                @@ "beq" :> Decimal(5, -1) @@ "jal" :> Decimal(6, -1) @@ "addi" :> Decimal(4, -1)
                @@ "default" :> Decimal(5, -1)),
            energy_per_cycle_sw |-> Whole(20),
            static_power_hw_mw |-> Whole(100),
            static_power_sw_mw |-> Whole(180),
            l1_cache_hit_rate |-> Decimal(97, -2),
            l1_miss_penalty_cycles |-> Whole(42),
            dram_energy_per_access_pj |-> Whole(680),
            branch_predictor_accuracy |-> Decimal(90, -2),
            branch_mispredict_penalty_cycles |-> Whole(3),
            cycles_hw |->
                ("mac" :> Whole(1) @@ "relu" :> Whole(1) @@ "sigmoid" :> Whole(4)
                @@ "tanh" :> Whole(4) @@ "conv2d.3x3" :> Whole(3) @@ "dwconv.3x3" :> Whole(3)
                @@ "maxpool.2x2" :> Whole(2) @@ "fadd.s" :> Whole(2) @@ "fsub.s" :> Whole(2)
                @@ "fmul.s" :> Whole(3) @@ "fdiv.s" :> Whole(12) @@ "flw" :> Whole(2)
                @@ "fsw" :> Whole(1) @@ "lw" :> Whole(2) @@ "sw" :> Whole(1)
                @@ "beq" :> Whole(1) @@ "jal" :> Whole(1) @@ "addi" :> Whole(1)
                @@ "add" :> Whole(1) @@ "sub" :> Whole(1) @@ "default" :> Whole(1))],
        low_power |->
           [name |-> "Low Power",
            riscv_clk_mhz |-> Whole(75),
            arm_clk_mhz |-> Whole(520),
            energy_per_cycle_hw |->
                ("mac" :> Decimal(17, -1) @@ "relu" :> Decimal(56, -2) @@ "conv2d.3x3" :> Decimal(467, -2)
                @@ "dwconv.3x3" :> Decimal(367, -2) @@ "maxpool.2x2" :> Decimal(225, -2) @@ "sigmoid" :> Decimal(84, -1)
                @@ "tanh" :> Decimal(84, -1) @@ "fadd.s" :> Decimal(45, -2) @@ "fsub.s" :> Decimal(45, -2)
                @@ "fmul.s" :> Decimal(14, -1) @@ "fdiv.s" :> Decimal(56, -1) @@ "flw" :> Decimal(28, -1)
                @@ "fsw" :> Decimal(28, -1) @@ "lw" :> Decimal(22, -1) @@ "sw" :> Decimal(22, -1)
                @@ "beq" :> Decimal(28, -2) @@ "jal" :> Decimal(34, -2) @@ "addi" :> Decimal(22, -2)
                @@ "default" :> Decimal(28, -2)),
            energy_per_cycle_sw |-> Whole(13),
            static_power_hw_mw |-> Whole(70),
            static_power_sw_mw |-> Whole(120),
            l1_cache_hit_rate |-> Decimal(96, -2),
            l1_miss_penalty_cycles |-> Whole(45),
            dram_energy_per_access_pj |-> Whole(720),
            branch_predictor_accuracy |-> Decimal(88, -2),
            branch_mispredict_penalty_cycles |-> Whole(3),
            cycles_hw |->
                ("mac" :> Whole(1) @@ "relu" :> Whole(1) @@ "sigmoid" :> Whole(4)
                @@ "tanh" :> Whole(4) @@ "conv2d.3x3" :> Whole(3) @@ "dwconv.3x3" :> Whole(3)
                @@ "maxpool.2x2" :> Whole(2) @@ "fadd.s" :> Whole(2) @@ "fsub.s" :> Whole(2)
                @@ "fmul.s" :> Whole(3) @@ "fdiv.s" :> Whole(12) @@ "flw" :> Whole(2)
                @@ "fsw" :> Whole(1) @@ "lw" :> Whole(2) @@ "sw" :> Whole(1)
                @@ "beq" :> Whole(1) @@ "jal" :> Whole(1) @@ "addi" :> Whole(1)
                @@ "add" :> Whole(1) @@ "sub" :> Whole(1) @@ "default" :> Whole(1))]]]

BoardIds == DOMAIN boards
ProfileIds == {"performance", "balanced", "low_power"}

\* the keys of defaultInstructionMix, in the order Object.entries lists them
MixKeys == <<"mac", "relu", "conv2d.3x3", "dwconv.3x3", "maxpool.2x2", "sigmoid", "tanh",
             "fadd.s", "fsub.s", "fmul.s", "fdiv.s", "flw", "fsw", "lw", "sw", "beq",
             "jal", "addi", "add", "sub", "default">>
defaultInstructionMix ==
    ("mac" :> 1300000 @@ "relu" :> 250000 @@ "conv2d.3x3" :> 50000 @@ "dwconv.3x3" :> 25000
     @@ "maxpool.2x2" :> 15000 @@ "sigmoid" :> 0 @@ "tanh" :> 0 @@ "fadd.s" :> 200000
     @@ "fsub.s" :> 50000 @@ "fmul.s" :> 300000 @@ "fdiv.s" :> 1000 @@ "flw" :> 400000
     @@ "fsw" :> 200000 @@ "lw" :> 100000 @@ "sw" :> 50000 @@ "beq" :> 150000
     @@ "jal" :> 20000 @@ "addi" :> 250000 @@ "add" :> 100000 @@ "sub" :> 50000
     @@ "default" :> 0)

\* obj[key] of an object literal whose keys are instruction names
Lookup(obj, key) == IF key \in DOMAIN obj THEN obj[key] ELSE Undefined
\* a || d on a number or undefined
Truthy(a, d) == IF a = Undefined \/ a = NaN \/ IsZero(a) THEN d ELSE a

(***************************************************************************)
(* sim(isHw) of the results memo; instructionMix and profile, which the    *)
(* closure reads, are parameters.                                          *)
(***************************************************************************)
cyclesPerInstr(profile, instr) ==
    Nullish(Lookup(profile.cycles_hw, instr),
            Nullish(Lookup(profile.cycles_hw, "default"), Whole(1)))
energyPerCycle(profile, instr) ==
    Nullish(Lookup(profile.energy_per_cycle_hw, instr),
            Nullish(Lookup(profile.energy_per_cycle_hw, "default"), Zero))
sw_equivalent_cycles ==
    ("mac" :> Whole(5) @@ "relu" :> Whole(3) @@ "conv2d.3x3" :> Whole(40)
     @@ "dwconv.3x3" :> Whole(35) @@ "maxpool.2x2" :> Whole(10) @@ "sigmoid" :> Whole(20)
     @@ "tanh" :> Whole(20) @@ "default" :> Whole(2))
swCyclesPerInstr(instr) ==
    Truthy(Lookup(sw_equivalent_cycles, instr), sw_equivalent_cycles["default"])
MemoryInstrs == {"lw", "sw", "flw", "fsw"}

\* the four counters of the loop
Counters(totalCycles, dynamicEnergyPj, memoryAccesses, branchCount) ==
    [totalCycles |-> totalCycles, dynamicEnergyPj |-> dynamicEnergyPj,
     memoryAccesses |-> memoryAccesses, branchCount |-> branchCount]
\* variant of the loop body that counts jal among the branches
countInstrJumps(acc, profile, isHw, instr, numericCount) ==
    Counters(
        IF isHw THEN Plus(acc.totalCycles, Times(numericCount, cyclesPerInstr(profile, instr)))
        ELSE Plus(acc.totalCycles, Times(numericCount, swCyclesPerInstr(instr))),
        IF isHw THEN Plus(acc.dynamicEnergyPj,
                          Times(Times(numericCount, cyclesPerInstr(profile, instr)),
                                energyPerCycle(profile, instr)))
        ELSE acc.dynamicEnergyPj,
        IF instr \in MemoryInstrs THEN Plus(acc.memoryAccesses, numericCount)
        ELSE acc.memoryAccesses,
        IF instr \in {"beq", "jal"} THEN Plus(acc.branchCount, numericCount)
        ELSE acc.branchCount)
\* variant of the loop body that divides the count by the accelerated cycles per instruction
countInstrDividing(acc, profile, isHw, instr, numericCount) ==
    Counters(
        IF isHw THEN Plus(acc.totalCycles, Divide(numericCount, cyclesPerInstr(profile, instr)))
        ELSE Plus(acc.totalCycles, Times(numericCount, swCyclesPerInstr(instr))),
        IF isHw THEN Plus(acc.dynamicEnergyPj,
                          Times(Divide(numericCount, cyclesPerInstr(profile, instr)),
                                energyPerCycle(profile, instr)))
        ELSE acc.dynamicEnergyPj,
        IF instr \in MemoryInstrs THEN Plus(acc.memoryAccesses, numericCount)
        ELSE acc.memoryAccesses,
        IF instr = "beq" THEN Plus(acc.branchCount, numericCount) ELSE acc.branchCount)
\* one turn of the loop for an instruction with a nonzero count
countInstr(acc, profile, isHw, instr, numericCount) ==
    Counters(
        IF isHw THEN Plus(acc.totalCycles, Times(numericCount, cyclesPerInstr(profile, instr)))
        ELSE Plus(acc.totalCycles, Times(numericCount, swCyclesPerInstr(instr))),
        IF isHw THEN Plus(acc.dynamicEnergyPj,
                          Times(Times(numericCount, cyclesPerInstr(profile, instr)),
                                energyPerCycle(profile, instr)))
        ELSE acc.dynamicEnergyPj,
        IF instr \in MemoryInstrs THEN Plus(acc.memoryAccesses, numericCount)
        ELSE acc.memoryAccesses,
        IF instr = "beq" THEN Plus(acc.branchCount, numericCount) ELSE acc.branchCount)
\* one turn of the loop: an instruction with a zero count is skipped
loopTurn(acc, profile, isHw, instr, numericCount) ==
    IF IsZero(numericCount) THEN acc
    ELSE countInstr(acc, profile, isHw, instr, numericCount)
\* the loop; the counters of a turn are computed before the next turn starts
RECURSIVE forEachEntry(_, _, _, _, _)
forEachEntry(acc, mix, profile, isHw, keys) ==
    IF keys = <<>> THEN acc
    ELSE CHOOSE end \in {forEachEntry(next, mix, profile, isHw, Tail(keys)) :
                          next \in {loopTurn(acc, profile, isHw, Head(keys),
                                              Whole(mix[Head(keys)]))}} : TRUE

cachePenaltyCycles(acc, profile) ==
    Times(Times(acc.memoryAccesses, Minus(Whole(1), profile.l1_cache_hit_rate)),
          profile.l1_miss_penalty_cycles)
branchPenaltyCycles(acc, profile) ==
    Times(Times(acc.branchCount, Minus(Whole(1), profile.branch_predictor_accuracy)),
          profile.branch_mispredict_penalty_cycles)
totalCyclesOf(acc, profile) ==
    Plus(Plus(acc.totalCycles, cachePenaltyCycles(acc, profile)),
         branchPenaltyCycles(acc, profile))
\* variant of dynamicEnergyPjOf that charges the penalty cycles too
dynamicEnergyPjAfterPenalties(acc, profile, isHw) ==
    IF isHw THEN acc.dynamicEnergyPj
    ELSE Times(totalCyclesOf(acc, profile), profile.energy_per_cycle_sw)
dynamicEnergyPjOf(acc, profile, isHw) ==
    IF isHw THEN acc.dynamicEnergyPj
    ELSE Times(acc.totalCycles, profile.energy_per_cycle_sw)
\* variant of clockMhz with the two clocks exchanged
clockMhzExchanged(profile, isHw) ==
    IF isHw THEN profile.arm_clk_mhz ELSE profile.riscv_clk_mhz
clockMhz(profile, isHw) == IF isHw THEN profile.riscv_clk_mhz ELSE profile.arm_clk_mhz
latencyMsOf(totalCycles, profile, isHw) ==
    Times(Divide(totalCycles, Times(clockMhz(profile, isHw), Decimal(1, 6))), Whole(1000))
staticPowerMw(profile, isHw) ==
    IF isHw THEN profile.static_power_hw_mw ELSE profile.static_power_sw_mw
staticEnergyMj(latencyMs, profile, isHw) ==
    Times(Times(Divide(staticPowerMw(profile, isHw), Whole(1000)),
                Divide(latencyMs, Whole(1000))),
          Whole(1000))
dynamicEnergyMj(dynamicEnergyPj) == Divide(dynamicEnergyPj, Decimal(1, 9))
simResult(latencyMs, dynamicEnergyPj, totalCycles, profile, isHw) ==
    [latencyMs |-> latencyMs,
     totalEnergyMj |-> Plus(dynamicEnergyMj(dynamicEnergyPj),
                            staticEnergyMj(latencyMs, profile, isHw)),
     totalCycles |-> totalCycles]
simTimed(totalCycles, dynamicEnergyPj, profile, isHw) ==
    simResult(latencyMsOf(totalCycles, profile, isHw), dynamicEnergyPj, totalCycles,
              profile, isHw)
simTotals(acc, profile, isHw) ==
    simTimed(totalCyclesOf(acc, profile), dynamicEnergyPjOf(acc, profile, isHw),
             profile, isHw)
sim(mix, profile, isHw) ==
    simTotals(forEachEntry(Counters(Zero, Zero, Zero, Zero), mix, profile, isHw, MixKeys),
              profile, isHw)

\* the results memo
RECURSIVE totalOperations(_, _)
totalOperations(mix, keys) ==
    IF keys = <<>> THEN Zero
    ELSE Plus(totalOperations(mix, SubSeq(keys, 1, Len(keys) - 1)),
              Whole(mix[keys[Len(keys)]]))
throughput(operations, latencyS) ==
    IF Greater(latencyS, Zero) THEN Divide(operations, latencyS) ELSE Zero
resultsOf(hw, sw, operations) ==
    [hw |-> hw, sw |-> sw,
     speedup |-> Divide(sw.latencyMs, hw.latencyMs),
     energyEfficiency |-> Divide(sw.totalEnergyMj, hw.totalEnergyMj),
     hwThroughput |-> throughput(operations, Divide(hw.latencyMs, Whole(1000))),
     swThroughput |-> throughput(operations, Divide(sw.latencyMs, Whole(1000)))]
Results(mix, profile) ==
    resultsOf(sim(mix, profile, TRUE), sim(mix, profile, FALSE),
              totalOperations(mix, MixKeys))
ProfileOf(boardId, profileId) == boards[boardId].profiles[profileId]

(***************************************************************************)
(* The component's state (the useState hooks of PipelineVisualizer).       *)
(***************************************************************************)
VARIABLES
    assemblyCode,        \* the program text
    instructions,        \* parsed instructions, instructions[i + 1] has pc i
    labels,              \* label name -> instruction index
    pc,                  \* program counter (a JavaScript value)
    cycle,               \* cycle counter
    pipeline,            \* the five stage registers
    registerFile,        \* JavaScript array, indexed from 0
    dataMemory,          \* address -> word
    lastWrittenReg,      \* register committed by the last step, or null
    memoryAccessStatus,  \* memory access of the last step, or null
    \* history variables, read by the properties only
    wrongPath,           \* per stage: the instruction there sat in Fetch when a branch redirected
    operands,            \* val1, val2 read for the instruction now in Execute
    stalls,              \* load-use stall steps since the last reset
    redirect,            \* label index of a redirect no fetch has followed yet, or null
    idle,                \* the last clock step returned at once (simulation finished)
    revived,             \* the last operation was a reset of a simulation that had stepped
    stores,              \* <<address, value>> of every sw write since the last reset, in order
    \* the useState hooks and the results memo of HardwareEmulation
    instructionMix,      \* instruction name -> count
    selectedBoardId,
    selectedProfileId

progVars == <<assemblyCode, instructions, labels, pc, cycle, pipeline, registerFile,
              dataMemory, lastWrittenReg, memoryAccessStatus>>
histVars == <<wrongPath, operands, stalls, redirect, idle, revived, stores>>
perfVars == <<instructionMix, selectedBoardId, selectedProfileId>>
vars == <<assemblyCode, instructions, labels, pc, cycle, pipeline, registerFile,
          dataMemory, lastWrittenReg, memoryAccessStatus,
          wrongPath, operands, stalls, redirect, idle, revived, stores,
          instructionMix, selectedBoardId, selectedProfileId>>
\* the profile selected and the results memo over instructionMix and profile
profile == ProfileOf(selectedBoardId, selectedProfileId)
results == Results(instructionMix, profile)

\* a PipelineStage; an absent isStall / isFlush is falsy
Stage(instr, stagePc, isStall, isFlush, result, address) ==
    [instr |-> instr, pc |-> stagePc, isStall |-> isStall, isFlush |-> isFlush,
     result |-> result, address |-> address]
EmptyStage == Stage(Null, Null, FALSE, FALSE, Undefined, Undefined)
StageNames == {"if", "id", "ex", "mem", "wb"}
initialPipeline == [s \in StageNames |-> EmptyStage]

\* arr[i] of a JavaScript array: undefined outside it
ArrayGet(arr, i) == IF i \in DOMAIN arr THEN arr[i] ELSE Undefined
\* arr[i] = v : an index past the end lengthens the array, leaving holes
ArraySet(arr, i, v) ==
    LET last == IF \A j \in DOMAIN arr : j <= i THEN i ELSE Cardinality(DOMAIN arr) - 1
    IN [j \in 0..last |-> IF j = i THEN v ELSE ArrayGet(arr, j)]
\* obj[key] and obj[key] = v on the dataMemory object
MemGet(mem, key) == IF key \in DOMAIN mem THEN mem[key] ELSE Undefined
MemSet(mem, key, v) == [a \in DOMAIN mem \cup {key} |-> IF a = key THEN v ELSE mem[a]]

\* the seeds of resetSimulationState
BaseAddress == 256
SeedWord == 42
RegCount == 32
\* variant of ResetRegisters that leaves x1 at 0
ResetRegistersAllZero == [i \in 0..(RegCount - 1) |-> Num(0)]
ResetRegisters == [i \in 0..(RegCount - 1) |-> IF i = 1 THEN Num(BaseAddress) ELSE Num(0)]
ResetMemory == [a \in {Num(BaseAddress)} |-> Num(SeedWord)]

\* variant of isFinished that does not wait for the pipeline to drain
isFinishedPcOnly == JsAtLeast(pc, Len(instructions))
isFinished ==
    /\ JsAtLeast(pc, Len(instructions))
    /\ \A s \in StageNames : pipeline[s].instr = Null

(***************************************************************************)
(* clockTick: the values it computes from the current state.               *)
(***************************************************************************)
\* --- WB stage
wb_instr == pipeline.mem.instr
wb_result == pipeline.mem.result
\* variant of wbCommits that lacks the test for register 0
wbCommitsAnyRd ==
    /\ wb_instr # Null
    /\ wb_instr.rd # Undefined
    /\ wb_result # Undefined
\* the writeback commits a register
wbCommits ==
    /\ wb_instr # Null
    /\ wb_instr.rd # Undefined
    /\ wb_instr.rd # Num(0)
    /\ wb_result # Undefined
newRegisterFile ==
    IF wbCommits THEN ArraySet(registerFile, wb_instr.rd.n, wb_result) ELSE registerFile
regWrittenThisCycle == IF wbCommits THEN wb_instr.rd ELSE Null

\* --- MEM stage
mem_instr == pipeline.ex.instr
mem_addr == pipeline.ex.address
memLoads == mem_instr # Null /\ mem_instr.op = OpLw /\ mem_addr # Undefined
\* variant of memStores that lacks the test for sw
memStoresAnyOp == mem_instr # Null /\ mem_instr.op \in {OpLw, OpSw} /\ mem_addr # Undefined
memStores == mem_instr # Null /\ mem_instr.op = OpSw /\ mem_addr # Undefined
mem_result ==
    IF memLoads THEN OrElse(MemGet(dataMemory, mem_addr), Num(0)) ELSE pipeline.ex.result
newMemory ==
    IF memStores
    THEN MemSet(dataMemory, mem_addr, Nullish(pipeline.ex.result, Num(0)))
    ELSE dataMemory
newMemoryAccessStatus ==
    IF memLoads THEN [address |-> mem_addr, type |-> "read"]
    ELSE IF memStores THEN [address |-> mem_addr, type |-> "write"]
    ELSE Null

\* --- EX stage
id_instr_for_ex == pipeline.id.instr
stallId ==
    /\ pipeline.ex.instr # Null
    /\ pipeline.ex.instr.op = OpLw
    /\ id_instr_for_ex # Null
    /\ pipeline.ex.instr.rd # Num(0)
    /\ pipeline.ex.instr.rd # Undefined
    /\ \/ StrictEq(id_instr_for_ex.rs1, pipeline.ex.instr.rd)
       \/ StrictEq(id_instr_for_ex.rs2, pipeline.ex.instr.rd)

\* variant of getValue that lacks the test for register 0
getValueOfAnyReg(regNum) ==
    IF regNum = Undefined THEN Num(0)
    ELSE IF /\ pipeline.mem.instr # Null
            /\ pipeline.mem.instr.rd = regNum
            /\ pipeline.mem.result # Undefined
    THEN pipeline.mem.result
    ELSE IF /\ pipeline.ex.instr # Null
            /\ pipeline.ex.instr.rd = regNum
            /\ pipeline.ex.result # Undefined
    THEN pipeline.ex.result
    ELSE ArrayGet(registerFile, regNum.n)
\* variant of getValue that tests the Execute stage before the Memory stage
getValueExFirst(regNum) ==
    IF regNum = Undefined \/ regNum = Num(0) THEN Num(0)
    ELSE IF /\ pipeline.ex.instr # Null
            /\ pipeline.ex.instr.rd = regNum
            /\ pipeline.ex.result # Undefined
    THEN pipeline.ex.result
    ELSE IF /\ pipeline.mem.instr # Null
            /\ pipeline.mem.instr.rd = regNum
            /\ pipeline.mem.result # Undefined
    THEN pipeline.mem.result
    ELSE ArrayGet(registerFile, regNum.n)
\* variant of getValue that reads the register file only (no forwarding)
getValueNoForward(regNum) ==
    IF regNum = Undefined \/ regNum = Num(0) THEN Num(0)
    ELSE ArrayGet(registerFile, regNum.n)
getValue(regNum) ==
    IF regNum = Undefined \/ regNum = Num(0) THEN Num(0)
    ELSE IF /\ pipeline.mem.instr # Null
            /\ pipeline.mem.instr.rd = regNum
            /\ pipeline.mem.result # Undefined
    THEN pipeline.mem.result
    ELSE IF /\ pipeline.ex.instr # Null
            /\ pipeline.ex.instr.rd = regNum
            /\ pipeline.ex.result # Undefined
    THEN pipeline.ex.result
    ELSE IF wb_instr # Null /\ wb_instr.rd = regNum /\ wb_result # Undefined
    THEN wb_result
    ELSE ArrayGet(registerFile, regNum.n)

\* the Decode instruction is executed in this step
executes == ~stallId /\ id_instr_for_ex # Null
val1 == getValue(id_instr_for_ex.rs1)
val2 == getValue(id_instr_for_ex.rs2)

\* raw.split(/\s+/).pop() || ''
BranchLabel(instr) == LET words == SplitSpaces(instr.raw) IN words[Len(words)]
\* labels[label] : labels is an object literal, so a name it does not hold itself
\* is looked up on Object.prototype
LabelLookup(label) ==
    IF label \in DOMAIN labels THEN Num(labels[label])
    ELSE IF label \in ObjectPrototypeMethods THEN Function
    ELSE Undefined
\* labels[label] ?? pc
LabelTarget(label) == Nullish(LabelLookup(label), pc)

branchTaken ==
    /\ executes
    /\ \/ id_instr_for_ex.op = OpBeq /\ StrictEq(val1, val2)
       \/ id_instr_for_ex.op = OpJal
newPc == IF branchTaken THEN LabelTarget(BranchLabel(id_instr_for_ex)) ELSE pc

\* variant of ex_result in which a jal links to its own index
ex_resultOwnIndex ==
    IF ~executes THEN Undefined
    ELSE IF id_instr_for_ex.op = OpAdd THEN JsAdd(val1, val2)
    ELSE IF id_instr_for_ex.op = OpSub THEN JsSub(val1, val2)
    ELSE IF id_instr_for_ex.op = OpAddi THEN JsAdd(val1, Nullish(id_instr_for_ex.imm, Num(0)))
    ELSE IF id_instr_for_ex.op = OpSw THEN val2
    ELSE IF id_instr_for_ex.op = OpJal THEN id_instr_for_ex.pc
    ELSE Undefined
ex_result ==
    IF ~executes THEN Undefined
    ELSE IF id_instr_for_ex.op = OpAdd THEN JsAdd(val1, val2)
    ELSE IF id_instr_for_ex.op = OpSub THEN JsSub(val1, val2)
    ELSE IF id_instr_for_ex.op = OpAddi THEN JsAdd(val1, Nullish(id_instr_for_ex.imm, Num(0)))
    ELSE IF id_instr_for_ex.op = OpSw THEN val2
    ELSE IF id_instr_for_ex.op = OpJal THEN JsAdd(id_instr_for_ex.pc, Num(1))
    ELSE Undefined
ex_address ==
    IF executes /\ id_instr_for_ex.op \in {OpLw, OpSw}
    THEN JsAdd(val1, Nullish(id_instr_for_ex.imm, Num(0)))
    ELSE Undefined

flushIf == branchTaken
flushId == branchTaken

\* --- the five new stage registers
newWb == Stage(wb_instr, pipeline.mem.pc, FALSE, FALSE, wb_result, Undefined)
\* variant of newMem that drops the Execute instruction in a stall step
newMemDropping ==
    IF stallId THEN EmptyStage
    ELSE Stage(mem_instr, pipeline.ex.pc, FALSE, FALSE, mem_result, mem_addr)
newMem == Stage(mem_instr, pipeline.ex.pc, FALSE, FALSE, mem_result, mem_addr)
newEx ==
    IF stallId
    THEN Stage(Null, Null, TRUE, FALSE, Undefined, Undefined)
    ELSE Stage(id_instr_for_ex, pipeline.id.pc, FALSE, FALSE, ex_result, ex_address)
newId ==
    IF stallId THEN [pipeline.id EXCEPT !.isStall = TRUE]
    ELSE IF flushId
    THEN Stage(pipeline.if.instr, pipeline.if.pc, FALSE, TRUE, Undefined, Undefined)
    ELSE Stage(pipeline.if.instr, pipeline.if.pc, FALSE, FALSE, Undefined, Undefined)
\* variant of newIf that fetches during a stall
newIfFetching ==
    IF flushIf THEN Stage(Null, Null, FALSE, TRUE, Undefined, Undefined)
    ELSE IF JsLess(newPc, Len(instructions))
    THEN Stage(instructions[newPc.n + 1], newPc, FALSE, FALSE, Undefined, Undefined)
    ELSE EmptyStage
newIf ==
    IF flushIf THEN Stage(Null, Null, FALSE, TRUE, Undefined, Undefined)
    ELSE IF stallId THEN pipeline.if
    ELSE IF JsLess(newPc, Len(instructions))
    THEN Stage(instructions[newPc.n + 1], newPc, FALSE, FALSE, Undefined, Undefined)
    ELSE EmptyStage
newPipeline == [if |-> newIf, id |-> newId, ex |-> newEx, mem |-> newMem, wb |-> newWb]

\* setPc(v): React takes a function v as an updater and stores v(pc); the inherited
\* method toString, called that way, returns the text "[object Undefined]"
setPc(v) == IF v = Function THEN Text ELSE v
\* variant of nextPc that moves the program counter on a branch only
nextPcBranchOnly == IF branchTaken THEN setPc(newPc) ELSE pc
nextPc == IF branchTaken THEN setPc(newPc) ELSE IF ~stallId THEN setPc(JsAdd(pc, Num(1))) ELSE pc

(***************************************************************************)
(* The hazard message and the forwarding path shown with the pipeline.     *)
(***************************************************************************)
\* variant of idReadsReg that lacks the test for register 0
idReadsRegAnyReg(reg) ==
    /\ reg # Undefined
    /\ pipeline.id.instr # Null
    /\ \/ StrictEq(pipeline.id.instr.rs1, reg)
       \/ StrictEq(pipeline.id.instr.rs2, reg)
\* idReadsReg of the hazardMessage memo
idReadsReg(reg) ==
    /\ reg # Undefined
    /\ reg # Num(0)
    /\ pipeline.id.instr # Null
    /\ \/ StrictEq(pipeline.id.instr.rs1, reg)
       \/ StrictEq(pipeline.id.instr.rs2, reg)
\* the four tests of the memo, in the order it makes them
messageLoadUse ==
    /\ pipeline.ex.instr # Null
    /\ pipeline.ex.instr.op = OpLw
    /\ idReadsReg(pipeline.ex.instr.rd)
messageExToId ==
    /\ pipeline.ex.instr # Null
    /\ pipeline.ex.instr.rd # Undefined
    /\ idReadsReg(pipeline.ex.instr.rd)
messageMemToId ==
    /\ pipeline.mem.instr # Null
    /\ pipeline.mem.instr.rd # Undefined
    /\ idReadsReg(pipeline.mem.instr.rd)
messageControl ==
    /\ pipeline.ex.instr # Null
    /\ pipeline.ex.instr.op \in {OpBeq, OpJal}
\* hazardMessage, by its kind and the register it names
hazardMessage ==
    IF messageLoadUse THEN [kind |-> "DATA HAZARD: Load-Use", reg |-> pipeline.ex.instr.rd]
    ELSE IF messageExToId THEN [kind |-> "FORWARDING: EX to ID", reg |-> pipeline.ex.instr.rd]
    ELSE IF messageMemToId THEN [kind |-> "FORWARDING: MEM to ID", reg |-> pipeline.mem.instr.rd]
    ELSE IF messageControl THEN [kind |-> "CONTROL HAZARD", reg |-> Undefined]
    ELSE [kind |-> "Status: No hazards detected.", reg |-> Undefined]
forwardingPath ==
    IF messageLoadUse THEN Null
    ELSE IF messageExToId THEN [from |-> "ex", to |-> "id", reg |-> pipeline.ex.instr.rd]
    ELSE IF messageMemToId THEN [from |-> "mem", to |-> "id", reg |-> pipeline.mem.instr.rd]
    ELSE Null

(***************************************************************************)
(* Program texts the editor is given.                                      *)
(***************************************************************************)
\* the decimal digits of n >= 0
RECURSIVE Dec(_)
Dec(n) == IF n < 10 THEN <<DigitChars[n + 1]>>
          ELSE Dec(n \div 10) \o <<DigitChars[(n % 10) + 1]>>
Reg(n) == <<"x">> \o Dec(n)
Sp == <<" ">>
\* the two ways operands are separated: "a, b" and "a,b"
CommaSp == <<",", " ">>
Comma == <<",">>
LineR(op, rd, rs1, rs2, sep) == op \o Sp \o Reg(rd) \o sep \o Reg(rs1) \o sep \o Reg(rs2)
LineI(rd, rs1, imm, sep) == OpAddi \o Sp \o Reg(rd) \o sep \o Reg(rs1) \o sep \o Dec(imm)
LineM(op, r, imm, base, sep) ==
    op \o Sp \o Reg(r) \o sep \o Dec(imm) \o <<"(">> \o Reg(base) \o <<")">>
LineB(rs1, rs2, label, sep) == OpBeq \o Sp \o Reg(rs1) \o sep \o Reg(rs2) \o sep \o label
LineJ(rd, label, sep) == OpJal \o Sp \o Reg(rd) \o sep \o label
LineLabel(label) == label \o <<":">>
RECURSIVE JoinLines(_)
JoinLines(lines) == IF lines = <<>> THEN <<>>
                    ELSE IF Len(lines) = 1 THEN lines[1]
                    ELSE lines[1] \o <<"\n">> \o JoinLines(Tail(lines))

LblEnd == <<"e", "n", "d">>
LblOut == <<"o", "u", "t">>
LblA == <<"a">>
LblB == <<"b">>

\* the lines short programs are made of
LinePool ==
    << LineM(OpLw, 2, 0, 1, CommaSp),       \* lw x2, 0(x1)
       LineI(3, 2, 4, CommaSp),             \* addi x3, x2, 4
       LineM(OpSw, 3, 4, 1, CommaSp),       \* sw x3, 4(x1)
       LineR(OpAdd, 3, 1, 1, CommaSp),      \* add x3, x1, x1
       LineB(2, 0, LblEnd, CommaSp),        \* beq x2, x0, end
       LineLabel(LblEnd),                   \* end:
       LineJ(1, LblOut, CommaSp) >>         \* jal x1, out   (no such label)

RECURSIVE LineSeqs(_)
LineSeqs(n) == IF n = 0 THEN {<<>>}
               ELSE LET shorter == LineSeqs(n - 1)
                    IN shorter \cup {Append(p, LinePool[i]) : p \in {q \in shorter : Len(q) = n - 1},
                                                             i \in DOMAIN LinePool}
PoolTexts == {JoinLines(p) : p \in LineSeqs(MaxLen)}

\* the sample program of the component, comments included
sampleCode ==
    <<"#", " ", "E", "x", "a", "m", "p", "l", "e", " ", "w", "i", "t", "h",
      " ", "m", "u", "l", "t", "i", "p", "l", "e", " ", "h", "a", "z", "a",
      "r", "d", " ", "t", "y", "p", "e", "s", "\n", "#", " ", "I", "n", "i",
      "t", "i", "a", "l", " ", "s", "t", "a", "t", "e", ":", " ", "x", "1",
      "=", "2", "5", "6", ",", " ", "M", "e", "m", "[", "2", "5", "6", "]",
      "=", "4", "2", "\n", "l", "w", " ", "x", "2", ",", " ", "0", "(", "x",
      "1", ")", " ", " ", " ", " ", "#", " ", "L", "O", "A", "D", " ", "W",
      "O", "R", "D", " ", "f", "r", "o", "m", " ", "M", "e", "m", "[", "2",
      "5", "6", "]", "\n", "a", "d", "d", "i", " ", "x", "3", ",", " ", "x",
      "2", ",", " ", "4", " ", " ", "#", " ", "L", "O", "A", "D", "-", "U",
      "S", "E", " ", "H", "A", "Z", "A", "R", "D", ":", " ", "a", "d", "d",
      "i", " ", "n", "e", "e", "d", "s", " ", "x", "2", ",", " ", "r", "e",
      "q", "u", "i", "r", "e", "s", " ", "S", "T", "A", "L", "L", "\n", "s",
      "w", " ", "x", "3", ",", " ", "4", "(", "x", "1", ")", " ", " ", " ",
      " ", "#", " ", "S", "T", "O", "R", "E", " ", "W", "O", "R", "D", " ",
      "t", "o", " ", "M", "e", "m", "[", "2", "6", "0", "]", "\n", "a", "d",
      "d", " ", "x", "5", ",", " ", "x", "4", ",", " ", "x", "1", " ", " ",
      "#", " ", "R", "e", "s", "u", "l", "t", " ", "f", "o", "r", " ", "x",
      "5", " ", "a", "v", "a", "i", "l", "a", "b", "l", "e", " ", "i", "n",
      " ", "E", "X", " ", "s", "t", "a", "g", "e", "\n", "s", "u", "b", " ",
      "x", "6", ",", " ", "x", "5", ",", " ", "x", "2", " ", " ", "#", " ",
      "E", "X", "-", ">", "I", "D", " ", "F", "O", "R", "W", "A", "R", "D",
      "I", "N", "G", ":", " ", "s", "u", "b", " ", "n", "e", "e", "d", "s",
      " ", "x", "5", " ", "f", "r", "o", "m", " ", "a", "d", "d", "\n", "b",
      "e", "q", " ", "x", "4", ",", " ", "x", "0", ",", " ", "e", "n", "d",
      " ", "#", " ", "C", "O", "N", "T", "R", "O", "L", " ", "H", "A", "Z",
      "A", "R", "D", ":", " ", "B", "r", "a", "n", "c", "h", "\n", "n", "o",
      "p", " ", " ", " ", " ", " ", " ", " ", " ", " ", " ", " ", " ", " ",
      "#", " ", "T", "h", "i", "s", " ", "i", "n", "s", "t", "r", "u", "c",
      "t", "i", "o", "n", " ", "w", "i", "l", "l", " ", "b", "e", " ", "F",
      "L", "U", "S", "H", "E", "D", "\n", "e", "n", "d", ":", "\n", "a", "d",
      "d", " ", "x", "8", ",", " ", "x", "8", ",", " ", "x", "9", "\n">>

\* the round-trip program written without blanks after the commas
RoundTripText ==
    JoinLines(<< LineM(OpLw, 2, 0, 1, Comma), LineI(3, 2, 4, Comma), LineM(OpSw, 3, 4, 1, Comma) >>)
\* two jumps in a row, to different labels
TwoTargetsText ==
    JoinLines(<< LineJ(0, LblA, CommaSp), LineJ(0, LblB, CommaSp), LineLabel(LblA),
                 LineR(OpAdd, 3, 1, 1, CommaSp), LineLabel(LblB), LineR(OpSub, 2, 3, 1, CommaSp) >>)
\* recognized opcodes with operands missing: "sw x1", "add x1", "addi x3"
MalformedText ==
    JoinLines(<< OpSw \o Sp \o Reg(1), OpAdd \o Sp \o Reg(1), OpAddi \o Sp \o Reg(3) >>)

\* a taken branch to a label the program does not define
UnknownBranchText ==
    JoinLines(<< LineB(2, 0, LblOut, CommaSp), LineR(OpSub, 2, 3, 1, CommaSp) >>)

\* a jump to a name no line declares, which is also the name of an inherited method
InheritedNameText ==
    JoinLines(<< LineJ(1, ToStringName, CommaSp), LineR(OpAdd, 3, 1, 1, CommaSp) >>)

\* an opcode the parser does not know, between a load and a store: "mul x3, x2, x2"
MulName == <<"m", "u", "l">>
UnknownOpText ==
    JoinLines(<< LineM(OpLw, 2, 0, 1, CommaSp), LineR(MulName, 3, 2, 2, CommaSp),
                 LineM(OpSw, 3, 4, 1, CommaSp) >>)

\* a destination register past x31: "addi x40, x1, 4"
HighRegisterText == LineI(40, 1, 4, CommaSp)

\* a jump that links: "jal x5, end", a skipped add, then "end:" and "sw x5, 0(x1)"
LinkText ==
    JoinLines(<< LineJ(5, LblEnd, CommaSp), LineR(OpAdd, 3, 1, 1, CommaSp), LineLabel(LblEnd),
                 LineM(OpSw, 5, 0, 1, CommaSp) >>)

\* a store, a load of the same address, and a later store to it:
\* "sw x1, 0(x1)", "lw x2, 0(x1)", "sw x0, 0(x1)"
StoreLoadText ==
    JoinLines(<< LineM(OpSw, 1, 0, 1, CommaSp), LineM(OpLw, 2, 0, 1, CommaSp),
                 LineM(OpSw, 0, 0, 1, CommaSp) >>)
\* a store of a value that is not a number, then a load of it:
\* "addi x3" (no operands), "sw x3, 0(x1)", "lw x2, 0(x1)"
NaNStoreText ==
    JoinLines(<< OpAddi \o Sp \o Reg(3), LineM(OpSw, 3, 0, 1, CommaSp),
                 LineM(OpLw, 2, 0, 1, CommaSp) >>)

\* destination x0 with results that are not 0, each followed by a reader of x0:
\* "lw x0, 0(x1)", "addi x0, x0, 4", "add x3, x0, x0"
ZeroDestText ==
    JoinLines(<< LineM(OpLw, 0, 0, 1, CommaSp), LineI(0, 0, 4, CommaSp),
                 LineR(OpAdd, 3, 0, 0, CommaSp) >>)

NamedTexts == {sampleCode, RoundTripText, TwoTargetsText, MalformedText, UnknownBranchText,
               InheritedNameText, UnknownOpText, HighRegisterText, LinkText, StoreLoadText,
               NaNStoreText, ZeroDestText}
ProgramTexts == PoolTexts \cup NamedTexts

\* the texts an edit of the text area leaves in it
EditTexts == {<<>>, RoundTripText}

(***************************************************************************)
(* Operations.                                                             *)
(***************************************************************************)
\* resetSimulationState; the history variables start over with it
resetSimulationState ==
    /\ cycle' = 0
    /\ pc' = Num(0)
    /\ pipeline' = initialPipeline
    /\ registerFile' = ResetRegisters
    /\ dataMemory' = ResetMemory
    /\ lastWrittenReg' = Null
    /\ memoryAccessStatus' = Null
    /\ wrongPath' = [s \in StageNames |-> FALSE]
    /\ operands' = <<Undefined, Undefined>>
    /\ stalls' = 0
    /\ redirect' = Null
    /\ idle' = FALSE
    /\ revived' = (cycle > 0)
    /\ stores' = <<>>

\* the effect on assemblyCode: parse, then reset
SetParsed(parsed) ==
    /\ instructions' = parsed.instructions
    /\ labels' = parsed.labels
LoadProgram(code) ==
    /\ SetParsed(parseAssembly(code))
    /\ resetSimulationState

InitParsed(parsed) ==
    /\ instructions = parsed.instructions
    /\ labels = parsed.labels

\* PipelineVisualizer after mount: the effects have parsed initialCode and reset
Mounted(code) ==
    /\ assemblyCode = code
    /\ InitParsed(parseAssembly(code))
    /\ cycle = 0
    /\ pc = Num(0)
    /\ pipeline = initialPipeline
    /\ registerFile = ResetRegisters
    /\ dataMemory = ResetMemory
    /\ lastWrittenReg = Null
    /\ memoryAccessStatus = Null
    /\ wrongPath = [s \in StageNames |-> FALSE]
    /\ operands = <<Undefined, Undefined>>
    /\ stalls = 0
    /\ redirect = Null
    /\ idle = FALSE
    /\ revived = FALSE
    /\ stores = <<>>
\* HardwareEmulation after mount, with an instruction mix the sliders have set
Emulating(mix) ==
    /\ instructionMix = mix
    /\ selectedBoardId = "pynq-z2"
    /\ selectedProfileId = "balanced"

Init ==
    /\ \E code \in ProgramTexts : Mounted(code)
    /\ Emulating(defaultInstructionMix)

\* the instruction the Fetch stage loads in this step, if it loads one
fetches == ~flushIf /\ ~stallId /\ JsLess(newPc, Len(instructions))
\* a branch or jump of this step redirects to a label of the label table
redirectsToLabel == branchTaken /\ BranchLabel(id_instr_for_ex) \in DOMAIN labels

\* the Step Forward button
clockTick ==
    IF isFinished
    THEN /\ idle' = TRUE
         /\ UNCHANGED <<progVars, wrongPath, operands, stalls, redirect, revived, stores,
                        perfVars>>
    ELSE /\ cycle < MaxCycle
         /\ UNCHANGED perfVars
         /\ pipeline' = newPipeline
         /\ registerFile' = newRegisterFile
         /\ dataMemory' = newMemory
         /\ lastWrittenReg' = regWrittenThisCycle
         /\ memoryAccessStatus' = newMemoryAccessStatus
         /\ pc' = nextPc
         /\ cycle' = cycle + 1
         /\ UNCHANGED <<assemblyCode, instructions, labels>>
         /\ wrongPath' = [if |-> FALSE,
                          id |-> IF stallId THEN wrongPath.id
                                 ELSE flushId /\ pipeline.if.instr # Null,
                          ex |-> ~stallId /\ wrongPath.id,
                          mem |-> wrongPath.ex,
                          wb |-> wrongPath.mem]
         /\ operands' = IF executes THEN <<val1, val2>> ELSE <<Undefined, Undefined>>
         /\ stalls' = IF stallId THEN stalls + 1 ELSE stalls
         /\ redirect' = IF redirect = Null /\ redirectsToLabel THEN newPc
                        ELSE IF fetches THEN Null
                        ELSE redirect
         /\ idle' = FALSE
         /\ revived' = FALSE
         /\ stores' = IF memStores THEN Append(stores, <<mem_addr, newMemory[mem_addr]>>)
                       ELSE stores

\* the Reset button: parse the text again, then reset
ResetButton ==
    /\ LoadProgram(assemblyCode)
    /\ UNCHANGED <<assemblyCode, perfVars>>

\* an edit of the text area: setAssemblyCode, whose effect parses and resets
EditCode ==
    \E code \in EditTexts :
        /\ code # assemblyCode
        /\ assemblyCode' = code
        /\ LoadProgram(code)
        /\ UNCHANGED perfVars

Next == clockTick \/ ResetButton \/ EditCode

Spec == Init /\ [][Next]_vars

(***************************************************************************)
(* HardwareEmulation: the sliders and the board and profile selectors.     *)
(***************************************************************************)
\* instruction mixes the sliders reach from defaultInstructionMix
ZeroMix == [instr \in DOMAIN defaultInstructionMix |-> 0]
ConvOnlyMix == [ZeroMix EXCEPT !["conv2d.3x3"] = 1000000]
MixPool == {defaultInstructionMix, ZeroMix, ConvOnlyMix}
\* the sliders moved and the values Math.round(Math.pow(10, linearValue)) they are moved to
SliderNames == {"conv2d.3x3", "lw", "beq"}
LogScaledValues == {1, 1000000}

setInstructionMix(mix) ==
    /\ instructionMix' = mix
    /\ UNCHANGED <<selectedBoardId, selectedProfileId, progVars, histVars>>
handleInstructionChange(name, value) ==
    setInstructionMix([instructionMix EXCEPT ![name] = value])
\* a slider is moved
handleSliderChange ==
    \E name \in SliderNames, logScaledValue \in LogScaledValues :
        handleInstructionChange(name, IF logScaledValue > 1 THEN logScaledValue ELSE 0)
setSelectedBoardId ==
    \E id \in BoardIds :
        /\ selectedBoardId' = id
        /\ UNCHANGED <<instructionMix, selectedProfileId, progVars, histVars>>
setSelectedProfileId ==
    \E id \in ProfileIds :
        /\ selectedProfileId' = id
        /\ UNCHANGED <<instructionMix, selectedBoardId, progVars, histVars>>

EmulationInit ==
    /\ Mounted(sampleCode)
    /\ \E mix \in MixPool : Emulating(mix)
EmulationNext == handleSliderChange \/ setSelectedBoardId \/ setSelectedProfileId
EmulationSpec == EmulationInit /\ [][EmulationNext]_vars

(***************************************************************************)
(* Properties.                                                             *)
(***************************************************************************)
\* a clock step that was not the no-op of a finished simulation
Stepped == cycle' = cycle + 1
\* instr names register r as rs1 or rs2
Reads(instr, r) == StrictEq(instr.rs1, r) \/ StrictEq(instr.rs2, r)
\* the load-use case: a lw with destination r # 0 in Execute, a reader of r in Decode
LoadUse ==
    /\ pipeline.ex.instr # Null
    /\ pipeline.ex.instr.op = OpLw
    /\ pipeline.ex.instr.rd \notin {Undefined, Num(0)}
    /\ pipeline.id.instr # Null
    /\ Reads(pipeline.id.instr, pipeline.ex.instr.rd)
\* the Decode instruction has entered Execute in this step
Executed ==
    /\ Stepped
    /\ pipeline.id.instr # Null
    /\ pipeline'.ex.instr = pipeline.id.instr
    /\ ~pipeline'.ex.isStall
\* ... and it was a jal, or a beq whose two operands were equal
Jumped ==
    /\ Executed
    /\ \/ pipeline.id.instr.op = OpJal
       \/ pipeline.id.instr.op = OpBeq /\ StrictEq(operands'[1], operands'[2])
AllEmpty == \A s \in StageNames : pipeline[s].instr = Null
PipelineDepth == Cardinality(StageNames)
NoBranches == \A i \in DOMAIN instructions : instructions[i].op \notin {OpBeq, OpJal}

\* C1: when a lw with destination r # 0 is in Execute and the instruction behind it,
\* in Decode, reads r, the clock step is a stall step: Execute gets a bubble, the
\* reader is held in Decode and the lw moves to Memory with the word it read; no
\* other step is a stall step; the step after a stall step is not a stall step: the
\* reader enters Execute, and its operand for r is the word the lw read.
C1_LoadUseStall ==
    [][ /\ (Stepped /\ LoadUse) =>
              /\ pipeline'.ex.instr = Null
              /\ pipeline'.ex.isStall
              /\ pipeline'.id.instr = pipeline.id.instr
              /\ pipeline'.id.isStall
              /\ pipeline'.mem.instr = pipeline.ex.instr
              /\ pipeline'.mem.result =
                     OrElse(MemGet(dataMemory, pipeline.ex.address), Num(0))
        /\ (Stepped /\ pipeline'.ex.isStall) => LoadUse
        /\ (Stepped /\ pipeline.id.isStall) =>
              /\ pipeline.mem.instr # Null
              /\ pipeline.mem.instr.op = OpLw
              /\ Reads(pipeline.id.instr, pipeline.mem.instr.rd)
              /\ pipeline'.ex.instr = pipeline.id.instr
              /\ ~pipeline'.ex.isStall
              /\ StrictEq(pipeline.id.instr.rs1, pipeline.mem.instr.rd)
                     => operands'[1] = pipeline.mem.result
              /\ StrictEq(pipeline.id.instr.rs2, pipeline.mem.instr.rd)
                     => operands'[2] = pipeline.mem.result
      ]_vars
\* after one stall the addi behind "lw x2, 0(x1)" is in Execute and has read the
\* loaded word, which is not what register x2 held
C1_Witness ==
    /\ stalls = 1
    /\ pipeline.ex.instr # Null
    /\ pipeline.ex.instr.op = OpAddi
    /\ operands[1] = Num(SeedWord)
    /\ operands[1] # ResetRegisters[2]

\* C2: when the Decode instruction reads r # 0 and the instruction in Execute is an
\* add, sub, addi or jal with destination r, the clock step is no stall step and the
\* Decode instruction's operand for r is the result of that Execute instruction.
C2_ExToIdForwarding ==
    [][ ( /\ Stepped
          /\ pipeline.id.instr # Null
          /\ pipeline.ex.instr # Null
          /\ pipeline.ex.instr.op \in {OpAdd, OpSub, OpAddi, OpJal}
          /\ pipeline.ex.instr.rd \notin {Undefined, Num(0)}
          /\ Reads(pipeline.id.instr, pipeline.ex.instr.rd) ) =>
              /\ pipeline'.ex.instr = pipeline.id.instr
              /\ ~pipeline'.ex.isStall
              /\ StrictEq(pipeline.id.instr.rs1, pipeline.ex.instr.rd)
                     => operands'[1] = pipeline.ex.result
              /\ StrictEq(pipeline.id.instr.rs2, pipeline.ex.instr.rd)
                     => operands'[2] = pipeline.ex.result
      ]_vars
\* the Memory and the Execute instruction both write the register the Decode
\* instruction reads, with different results
C2_TwoProducers ==
    /\ pipeline.id.instr # Null
    /\ pipeline.ex.instr # Null
    /\ pipeline.mem.instr # Null
    /\ pipeline.ex.instr.op \in {OpAdd, OpSub, OpAddi, OpJal}
    /\ pipeline.ex.instr.rd \notin {Undefined, Num(0)}
    /\ pipeline.mem.instr.rd = pipeline.ex.instr.rd
    /\ Reads(pipeline.id.instr, pipeline.ex.instr.rd)
    /\ pipeline.mem.result \notin {Undefined, pipeline.ex.result}

\* C3: the instruction that sat in Fetch when a beq was taken or a jal executed
\* writes no register and no data-memory word in any later clock step.
C3_WrongPathSquashed ==
    [][ /\ (Stepped /\ wrongPath.mem) => lastWrittenReg' = Null
        /\ (Stepped /\ wrongPath.ex) =>
              (memoryAccessStatus' = Null \/ memoryAccessStatus'.type # "write")
      ]_vars
\* the addi now in Writeback sat in Fetch when a branch to end redirected, and it
\* has just written x3
C3_WrongPathWrote ==
    /\ wrongPath.wb
    /\ LblEnd \in DOMAIN labels
    /\ pipeline.wb.instr # Null
    /\ pipeline.wb.instr.op = OpAddi
    /\ lastWrittenReg = pipeline.wb.instr.rd
    /\ ArrayGet(registerFile, 3) = Num(4)

\* C4: in the clock step that executes a taken beq or a jal whose label is in the
\* label table, the new Fetch and Decode registers carry the flush marker and the
\* program counter becomes the label's index; the next instruction loaded into
\* Fetch is the one at that index.
C4_BranchRedirect ==
    [][ /\ (Jumped /\ BranchLabel(pipeline.id.instr) \in DOMAIN labels) =>
              /\ pipeline'.if.isFlush
              /\ pipeline'.id.isFlush
              /\ pc' = Num(labels[BranchLabel(pipeline.id.instr)])
        /\ (Stepped /\ redirect # Null /\ pipeline'.if.instr # Null) =>
              pipeline'.if.pc = redirect
      ]_vars
\* after "jal x0, a" the instruction fetched is the one at label b: the one at
\* label a, index 2, was never fetched
C4_FetchedElsewhere ==
    /\ assemblyCode = TwoTargetsText
    /\ labels[LblA] = 2
    /\ pipeline.if.instr # Null
    /\ pipeline.if.pc = Num(3)
    /\ cycle = 5

\* C5 (as stated): from reset, the simulation is finished after at most
\* program length + pipeline depth + stalls clock steps, for every program.
C5_AnyProgramTerminates == cycle <= Len(instructions) + PipelineDepth + stalls
\* C5 (amended): for a program without beq and jal, the simulation is finished
\* after at most program length + pipeline depth + stalls clock steps from reset.
C5_StraightLineTerminates ==
    NoBranches =>
        /\ cycle <= Len(instructions) + PipelineDepth + stalls
        /\ cycle = Len(instructions) + PipelineDepth + stalls => isFinished
\* a program without branches, with a stall, has finished
C5_Witness ==
    /\ NoBranches
    /\ stalls > 0
    /\ isFinished
    /\ cycle = Len(instructions) + PipelineDepth + stalls

\* C6: a clock step is the finished no-op exactly when the program counter is >= the
\* instruction count and the five stage registers hold no instruction; that step
\* changes neither pipeline, register file, data memory, program counter nor cycle.
C6_FinishedIsAbsorbing ==
    [][ /\ idle' =>
              /\ pc.k = "num"
              /\ pc.n >= Len(instructions)
              /\ AllEmpty
              /\ UNCHANGED <<pipeline, registerFile, dataMemory, pc, cycle>>
        /\ Stepped => ~(pc.k = "num" /\ pc.n >= Len(instructions) /\ AllEmpty)
      ]_vars
\* a program has run to its end and a further clock step has been taken
C6_Witness ==
    /\ idle
    /\ cycle > 0
    /\ Len(instructions) > 0

\* C7: register 0 holds 0 in every reachable state, and the writeback of an
\* instruction whose destination is x0 leaves the register file as it was.
C7_RegisterZero ==
    /\ [](ArrayGet(registerFile, 0) = Num(0))
    /\ [][ (Stepped /\ pipeline.mem.instr # Null /\ pipeline.mem.instr.rd = Num(0))
               => registerFile' = registerFile ]_vars
\* an instruction with destination x0 and a non-zero result has passed writeback
C7_Witness ==
    /\ pipeline.wb.instr # Null
    /\ pipeline.wb.instr.rd = Num(0)
    /\ pipeline.wb.result \notin {Undefined, Num(0), NaN}
    /\ lastWrittenReg = Null
    /\ ArrayGet(registerFile, 0) = Num(0)

\* C8: the program "lw x2,0(x1)" / "addi x3,x2,4" / "sw x3,4(x1)", run from reset
\* until finished, leaves memory[260] = 46 and memory[256] = 42.
C8_RoundTrip ==
    (assemblyCode = RoundTripText /\ isFinished) =>
        /\ MemGet(dataMemory, Num(BaseAddress + 4)) = Num(SeedWord + 4)
        /\ MemGet(dataMemory, Num(BaseAddress)) = Num(SeedWord)
\* the program has finished, nothing was stored at 260 and 0 was stored at 0
C8_StoredAtZero ==
    /\ assemblyCode = RoundTripText
    /\ isFinished
    /\ cycle > 0
    /\ Num(BaseAddress + 4) \notin DOMAIN dataMemory
    /\ MemGet(dataMemory, Num(0)) = Num(0)

\* C9: the clock step that executes a jal, or a beq with equal operands, whose label
\* is not in the label table leaves the program counter as it was.
C9_UnknownLabel ==
    [][ (Jumped /\ BranchLabel(pipeline.id.instr) \notin DOMAIN labels) => pc' = pc ]_vars
\* a jump to the undeclared label toString has left a text in the program counter
C9_PcIsText ==
    /\ pc = Text
    /\ ToStringName \notin DOMAIN labels
    /\ pipeline.ex.instr # Null
    /\ pipeline.ex.instr.op = OpJal

\* an operand the opcode of instr needs is missing or is not a number
Malformed(instr) ==
    \/ instr.op \in {OpAdd, OpSub} /\ Undefined \in {instr.rd, instr.rs1, instr.rs2}
    \/ instr.op = OpAddi /\ (Undefined \in {instr.rd, instr.rs1} \/ instr.imm = NaN)
    \/ instr.op = OpLw /\ Undefined \in {instr.rd, instr.rs1, instr.imm}
    \/ instr.op = OpSw /\ Undefined \in {instr.rs2, instr.rs1, instr.imm}
    \/ instr.op = OpBeq /\ (Undefined \in {instr.rs1, instr.rs2} \/ instr.label = UndefinedStr)
    \/ instr.op = OpJal /\ (instr.rd = Undefined \/ instr.label = UndefinedStr)

\* C10: an instruction with a recognized opcode and a missing or malformed operand
\* changes no register at its writeback and no data-memory word at its Memory stage.
C10_MalformedIsNoOp ==
    [][ /\ (Stepped /\ pipeline.mem.instr # Null /\ Malformed(pipeline.mem.instr)) =>
              /\ lastWrittenReg' = Null
              /\ registerFile' = registerFile
        /\ (Stepped /\ pipeline.ex.instr # Null /\ Malformed(pipeline.ex.instr)) =>
              dataMemory' = dataMemory
      ]_vars
\* "sw x1" has stored at address 0 and "add x1" has overwritten x1 with 0
C10_MalformedWrote ==
    /\ assemblyCode = MalformedText
    /\ MemGet(dataMemory, Num(0)) = Num(BaseAddress)
    /\ ArrayGet(registerFile, 1) = Num(0)

(***************************************************************************)
(* Properties of the performance model (EmulationSpec).                    *)
(***************************************************************************)
\* a metric that divides by zero is 0 or +Infinity
Guarded(metric, denominator) ==
    /\ metric # NaN
    /\ IsZero(denominator) => (metric = Infinity \/ IsZero(metric))

\* C11: speedup, energy-efficiency gain and both throughputs are never NaN, and
\* each is 0 or +Infinity whenever its denominator (a latency or an energy) is zero.
C11_DivisionGuard ==
    /\ Guarded(results.speedup, results.hw.latencyMs)
    /\ Guarded(results.energyEfficiency, results.hw.totalEnergyMj)
    /\ Guarded(results.hwThroughput, results.hw.latencyMs)
    /\ Guarded(results.swThroughput, results.sw.latencyMs)
\* every slider is at 0: both latencies and both energies are 0, the two ratios are
\* 0 / 0 and the two throughputs are the guarded 0
C11_RatiosAreNaN ==
    /\ instructionMix = ZeroMix
    /\ IsZero(results.hw.latencyMs) /\ IsZero(results.hw.totalEnergyMj)
    /\ results.speedup = NaN
    /\ results.energyEfficiency = NaN
    /\ IsZero(results.hwThroughput) /\ IsZero(results.swThroughput)

\* latency of the accelerated core and of the baseline core
acceleratedLatency(mix, prof) == sim(mix, prof, TRUE).latencyMs
baselineLatency(mix, prof) == sim(mix, prof, FALSE).latencyMs
\* prof with the cycles_hw entry of instr larger by more
Raised(prof, instr, more) ==
    [prof EXCEPT !.cycles_hw[instr] = Plus(prof.cycles_hw[instr], Whole(more))]

\* C12: with the instruction mix fixed (counts are never negative), a profile that
\* differs only by a larger cycles_hw entry of one instruction gives an accelerated
\* latency that is not smaller.
C12_Monotone ==
    \A latency \in {acceleratedLatency(instructionMix, profile)} :
        \A instr \in DOMAIN profile.cycles_hw, more \in 1..MaxIncrease :
            ~Less(acceleratedLatency(instructionMix, Raised(profile, instr, more)), latency)
\* conv2d.3x3 is in the mix and a larger entry for it makes the latency larger, while
\* a larger entry for an instruction with count 0 leaves it as it is
C12_Witness ==
    /\ instructionMix["conv2d.3x3"] > 0
    /\ instructionMix["sigmoid"] = 0
    /\ Greater(acceleratedLatency(instructionMix, Raised(profile, "conv2d.3x3", 1)),
               acceleratedLatency(instructionMix, profile))
    /\ Same(acceleratedLatency(instructionMix, Raised(profile, "sigmoid", 1)),
            acceleratedLatency(instructionMix, profile))

\* profiles for a mix of conv2d.3x3 only: prof with other cycles per operation and clocks
Conv == "conv2d.3x3"
Clocked(prof, cycles, riscvMhz, armMhz) ==
    [prof EXCEPT !.cycles_hw[Conv] = Whole(cycles),
                 !.riscv_clk_mhz = Whole(riscvMhz),
                 !.arm_clk_mhz = Whole(armMhz)]
ConvCycles == {1, 3, 39, 40, 41}
RiscvClocks == {10, 100}
ArmClocks == {10, 1000}
ConvProfiles(prof) ==
    {prof} \cup {Clocked(prof, cycles, riscvMhz, armMhz) :
                     cycles \in ConvCycles, riscvMhz \in RiscvClocks, armMhz \in ArmClocks}
FewerCycles(prof) == Less(cyclesPerInstr(prof, Conv), swCyclesPerInstr(Conv))
\* fewer cycles per operation, each weighed by its clock
ShorterCycles(prof) ==
    Less(Times(cyclesPerInstr(prof, Conv), prof.arm_clk_mhz),
         Times(swCyclesPerInstr(Conv), prof.riscv_clk_mhz))
Faster(mix, prof) == Less(acceleratedLatency(mix, prof), baselineLatency(mix, prof))

\* C13 as stated: for a mix of 1,000,000 conv2d.3x3 operations and nothing else the
\* accelerated latency is strictly less than the baseline latency for every profile
\* with fewer accelerated than baseline cycles per operation, whatever its two clocks.
C13_FewerCyclesIsFaster ==
    instructionMix = ConvOnlyMix =>
        \A prof \in ConvProfiles(profile) : FewerCycles(prof) => Faster(instructionMix, prof)
\* C13 as amended: the accelerated latency is strictly less than the baseline latency
\* for every profile whose accelerated cycles per operation divided by the accelerated
\* clock are less than the baseline cycles per operation divided by the baseline
\* clock, which every profile of every board is.
C13_ShorterCyclesIsFaster ==
    instructionMix = ConvOnlyMix =>
        /\ ShorterCycles(profile)
        /\ \A prof \in ConvProfiles(profile) :
               ShorterCycles(prof) => Faster(instructionMix, prof)
\* the mix is conv2d.3x3 only, another profile than the first has been selected and
\* the accelerated core is faster; with 39 cycles at its own clocks it would be slower
C13_Witness ==
    /\ instructionMix = ConvOnlyMix
    /\ selectedBoardId = "arty-a7"
    /\ selectedProfileId = "low_power"
    /\ Faster(instructionMix, profile)
    /\ FewerCycles(Clocked(profile, 39, 75, 320))
    /\ ~Faster(instructionMix, Clocked(profile, 39, 75, 320))

(***************************************************************************)
(* Properties of the pipeline (Spec), continued.                           *)
(***************************************************************************)
\* the registers and the data-memory addresses whose content a step changes
ChangedRegisters ==
    {i \in DOMAIN registerFile \cup DOMAIN registerFile' :
        ArrayGet(registerFile', i) # ArrayGet(registerFile, i)}
ChangedAddresses ==
    {a \in DOMAIN dataMemory \cup DOMAIN dataMemory' :
        MemGet(dataMemory', a) # MemGet(dataMemory, a)}

\* C14: across a clock step the register file changes at most at the destination
\* register of the instruction that was in Memory, which is no sw and no beq, and
\* data memory changes at most at the address of a sw that was in Execute; no other
\* instruction and no bubble changes data memory.
C14_WriteDiscipline ==
    [][ Stepped =>
          /\ \A i \in ChangedRegisters :
                 /\ pipeline.mem.instr # Null
                 /\ pipeline.mem.instr.op \notin {OpSw, OpBeq}
                 /\ pipeline.mem.instr.rd = Num(i)
          /\ \A a \in ChangedAddresses :
                 /\ pipeline.ex.instr # Null
                 /\ pipeline.ex.instr.op = OpSw
                 /\ pipeline.ex.address = a
      ]_vars
\* lw, addi and sw have run: x2 and x3 were written and the sw has stored at 260
C14_Witness ==
    /\ ArrayGet(registerFile, 2) = Num(SeedWord)
    /\ ArrayGet(registerFile, 3) = Num(SeedWord + 4)
    /\ MemGet(dataMemory, Num(BaseAddress + 4)) = Num(SeedWord + 4)
    /\ MemGet(dataMemory, Num(BaseAddress)) = Num(SeedWord)

\* instr has an opcode parseAssembly and clockTick do not know
Opcodes == {OpAdd, OpSub, OpAddi, OpLw, OpSw, OpBeq, OpJal}
Unrecognized(instr) == instr # Null /\ instr.op \notin Opcodes

\* C15: an instruction with an unrecognized opcode moves on through the stages, its
\* Execute step computes nothing, redirects nothing and causes no stall and no flush,
\* its Memory step leaves data memory alone and its writeback writes no register.
C15_UnrecognizedIsNoOp ==
    [][ Stepped =>
          /\ Unrecognized(pipeline.if.instr) =>
                 IF pipeline'.ex.isStall THEN pipeline'.if.instr = pipeline.if.instr
                 ELSE pipeline'.id.instr = pipeline.if.instr
          /\ Unrecognized(pipeline.id.instr) =>
                 /\ pipeline'.ex = Stage(pipeline.id.instr, pipeline.id.pc, FALSE, FALSE,
                                         Undefined, Undefined)
                 /\ ~pipeline'.id.isStall /\ ~pipeline'.id.isFlush /\ ~pipeline'.if.isFlush
                 /\ pc' = JsAdd(pc, Num(1))
          /\ Unrecognized(pipeline.ex.instr) =>
                 /\ pipeline'.mem.instr = pipeline.ex.instr
                 /\ ~pipeline'.ex.isStall
                 /\ dataMemory' = dataMemory
                 /\ memoryAccessStatus' = Null
          /\ Unrecognized(pipeline.mem.instr) =>
                 /\ pipeline'.wb.instr = pipeline.mem.instr
                 /\ registerFile' = registerFile
                 /\ lastWrittenReg' = Null
      ]_vars
\* "mul x3, x2, x2" has left the pipeline behind the lw: x2 is loaded, x3 is as it
\* was after reset, no step has stalled and the sw after it has stored that x3
C15_Witness ==
    /\ assemblyCode = UnknownOpText
    /\ isFinished
    /\ ArrayGet(registerFile, 2) = Num(SeedWord)
    /\ ArrayGet(registerFile, 3) = Num(0)
    /\ stalls = 0
    /\ MemGet(dataMemory, Num(BaseAddress + 4)) = Num(0)

\* C16: for every program text, also one that names a register above x31, no clock
\* step writes a register index outside 0..31 and the register file keeps its 32
\* entries.
C16_RegisterBounds ==
    /\ DOMAIN registerFile = 0..(RegCount - 1)
    /\ lastWrittenReg # Null => lastWrittenReg.n \in 0..(RegCount - 1)
\* "addi x40, x1, 4" has written index 40: the array has 41 entries, 32..39 are holes
C16_WroteBeyond ==
    /\ assemblyCode = HighRegisterText
    /\ ArrayGet(registerFile, 40) = Num(BaseAddress + 4)
    /\ Cardinality(DOMAIN registerFile) = 41
    /\ ArrayGet(registerFile, RegCount) = Undefined


\* the state the claim describes: nothing has run
Pristine ==
    /\ cycle = 0
    /\ pc = Num(0)
    /\ \A s \in StageNames : pipeline[s] = EmptyStage
    /\ DOMAIN registerFile = 0..(RegCount - 1)
    /\ \A i \in DOMAIN registerFile :
           registerFile[i] = IF i = 1 THEN Num(BaseAddress) ELSE Num(0)
    /\ DOMAIN dataMemory = {Num(BaseAddress)}
    /\ dataMemory[Num(BaseAddress)] = Num(SeedWord)
    /\ lastWrittenReg = Null

\* C17: from any reachable state the Reset button and any edit of the program text
\* yield cycle 0, program counter 0, five empty stage registers, every register 0
\* except x1 = 256, data memory holding exactly 42 at address 256, and no
\* last-written register; a reset of that state changes nothing (idempotence).
C17_ResetRestores ==
    [][ /\ (ResetButton \/ EditCode) => Pristine'
        /\ (ResetButton /\ Pristine) => UNCHANGED progVars
      ]_vars
\* a reset of a simulation that had stepped has restored the state
C17_Witness == revived /\ Pristine


\* the instruction in the stage writes register r and has a result
Supplies(stage, r) ==
    /\ stage.instr # Null
    /\ stage.instr.rd = r
    /\ stage.result # Undefined
\* the value the forwarding chain gives for source register r in this step; the
\* completing writeback is the one entering the Writeback stage register
Resolved(r) ==
    IF r \in {Undefined, Num(0)} THEN Num(0)
    ELSE IF Supplies(pipeline.mem, r) THEN pipeline.mem.result
    ELSE IF Supplies(pipeline.ex, r) THEN pipeline.ex.result
    ELSE IF Supplies(pipeline'.wb, r) THEN pipeline'.wb.result
    ELSE ArrayGet(registerFile, r.n)

C19_StallFrame ==
    [][ /\ (Stepped /\ LoadUse) =>
              /\ pipeline'.id.instr = pipeline.id.instr
              /\ pipeline'.id.pc = pipeline.id.pc
              /\ pipeline'.id.isStall
              /\ pipeline'.if = pipeline.if
              /\ pc' = pc
              /\ pipeline'.ex.instr = Null
              /\ pipeline'.mem.instr = pipeline.ex.instr
              /\ pipeline'.mem.instr.op = OpLw
        /\ (Stepped /\ pipeline.id.isStall) =>
              /\ pipeline'.ex.instr = pipeline.id.instr
              /\ pipeline'.id.instr = pipeline.if.instr
      ]_vars
\* a stall step has held "addi x3, x2, 4" in Decode and "sw x3, 4(x1)" in Fetch
\* while "lw x2, 0(x1)" moved to Memory
C19_Witness ==
    /\ stalls = 1
    /\ pipeline.id.isStall
    /\ pipeline.id.instr # Null
    /\ pipeline.id.instr.op = OpAddi
    /\ pipeline.if.instr # Null
    /\ pipeline.if.instr.op = OpSw
    /\ pipeline.ex.instr = Null
    /\ pipeline.mem.instr # Null
    /\ pipeline.mem.instr.op = OpLw


\* the source operands of the Decode instruction, in the order of the operands
Sources == <<pipeline.id.instr.rs1, pipeline.id.instr.rs2>>

\* C20: whenever the forwarding path shown before a clock step names register r
\* and the stage (Execute or Memory) it is forwarded from, that clock step gives
\* the Decode instruction, for each source operand that is r, the result held in
\* that stage: the message follows the order of the forwarding chain.
C20_MessageMatchesForwarding ==
    [][ (Stepped /\ forwardingPath # Null) =>
            /\ pipeline'.ex.instr = pipeline.id.instr
            /\ \A k \in {1, 2} :
                   StrictEq(Sources[k], forwardingPath.reg) =>
                       operands'[k] = pipeline[forwardingPath.from].result
      ]_vars
\* the message names the Execute stage while getValue takes the different result
\* of the Memory stage
C20_MessageNamesOtherStage ==
    /\ forwardingPath # Null
    /\ forwardingPath.from = "ex"
    /\ hazardMessage.kind = "FORWARDING: EX to ID"
    /\ \E k \in {1, 2} :
          /\ StrictEq(Sources[k], forwardingPath.reg)
          /\ getValue(Sources[k]) = pipeline.mem.result
          /\ getValue(Sources[k]) # pipeline.ex.result


\* a jal whose label is a label of the program
LinkingJump(instr) ==
    /\ instr # Null
    /\ instr.op = OpJal
    /\ instr.label \in DOMAIN labels

\* C21: the clock step in which a jal with a known label executes sets the program
\* counter to the label's instruction index, whatever the registers hold, and the
\* step that writes the jal back gives its destination register, when that is not
\* x0, the jal's own instruction index plus one.
C21_JalSemantics ==
    [][ /\ (Stepped /\ LinkingJump(pipeline.id.instr)) =>
              /\ pipeline'.ex.instr = pipeline.id.instr
              /\ pc' = Num(labels[pipeline.id.instr.label])
        /\ ( /\ Stepped
             /\ LinkingJump(pipeline.mem.instr)
             /\ pipeline.mem.instr.rd \notin {Undefined, Num(0)} ) =>
              /\ lastWrittenReg' = pipeline.mem.instr.rd
              /\ ArrayGet(registerFile', pipeline.mem.instr.rd.n)
                     = Num(pipeline.mem.instr.pc.n + 1)
      ]_vars
\* "jal x5, end" at index 0 has jumped to index 2 and x5 holds 1
C21_Witness ==
    /\ assemblyCode = LinkText
    /\ ArrayGet(registerFile, 5) = Num(1)
    /\ pipeline.wb.instr # Null
    /\ pipeline.wb.instr.op = OpJal
    /\ pipeline.id.instr # Null
    /\ pipeline.id.pc = Num(2)


\* the dynamic energy, in picojoules, within an estimate: its total energy less the
\* static energy of its latency
DynamicPj(estimate, prof, isHw) ==
    Times(Minus(estimate.totalEnergyMj, staticEnergyMj(estimate.latencyMs, prof, isHw)),
          Decimal(1, 9))
\* the cycles of the software table for a mix, without penalty cycles
RECURSIVE EquivalentCycles(_, _)
EquivalentCycles(mix, keys) ==
    IF keys = <<>> THEN Zero
    ELSE Plus(Times(Whole(mix[Head(keys)]),
                    IF Head(keys) \in DOMAIN sw_equivalent_cycles
                    THEN sw_equivalent_cycles[Head(keys)]
                    ELSE sw_equivalent_cycles["default"]),
              EquivalentCycles(mix, Tail(keys)))
\* the mix has an instruction that adds penalty cycles
Penalized(mix) == \E instr \in MemoryInstrs \cup {"beq"} : mix[instr] # 0
FlatEnergy(estimate, cycles) ==
    Same(DynamicPj(estimate, profile, FALSE), Times(cycles, profile.energy_per_cycle_sw))

\* C22 as stated: the dynamic energy of the baseline estimate is its totalCycles
\* times the profile's flat software energy per cycle.
C22_EnergyOfTotalCycles ==
    \A estimate \in {results.sw} : FlatEnergy(estimate, estimate.totalCycles)
\* C22 as the code has it: the dynamic energy of the baseline estimate is the
\* cycles of the software table, counted before the cache-miss and misprediction
\* penalty cycles are added, times the flat software energy per cycle; that is the
\* estimate's totalCycles when the mix has no lw, sw, flw, fsw and beq.
C22_EnergyOfEquivalentCycles ==
    \A estimate \in {results.sw} :
        /\ FlatEnergy(estimate, EquivalentCycles(instructionMix, MixKeys))
        /\ ~Penalized(instructionMix) => FlatEnergy(estimate, estimate.totalCycles)
\* the default mix: loads, stores and branches add penalty cycles to totalCycles
C22_Witness ==
    /\ instructionMix = defaultInstructionMix
    /\ Penalized(instructionMix)
    /\ Greater(results.sw.totalCycles, EquivalentCycles(instructionMix, MixKeys))


\* cycles per instruction as the claim gives them: the profile's cycles_hw entry,
\* else its default entry, else 1; on the baseline the software table, else 2
CyclesFor(prof, isHw, instr) ==
    IF isHw
    THEN IF instr \in DOMAIN prof.cycles_hw THEN prof.cycles_hw[instr]
         ELSE IF "default" \in DOMAIN prof.cycles_hw THEN prof.cycles_hw["default"]
         ELSE Whole(1)
    ELSE IF instr \in DOMAIN sw_equivalent_cycles THEN sw_equivalent_cycles[instr]
         ELSE Whole(2)
\* the sum over the entries with a non-zero count of count x cycles per instruction
RECURSIVE BaseCycles(_, _, _, _)
BaseCycles(mix, prof, isHw, keys) ==
    IF keys = <<>> THEN Zero
    ELSE IF mix[Head(keys)] = 0 THEN BaseCycles(mix, prof, isHw, Tail(keys))
    ELSE Plus(Times(Whole(mix[Head(keys)]), CyclesFor(prof, isHw, Head(keys))),
              BaseCycles(mix, prof, isHw, Tail(keys)))
\* the number of lw, sw, flw and fsw in a mix
Accesses(mix) == Whole(mix["lw"] + mix["sw"] + mix["flw"] + mix["fsw"])
MissCycles(mix, prof) ==
    Times(Times(Accesses(mix), Minus(Whole(1), prof.l1_cache_hit_rate)),
          prof.l1_miss_penalty_cycles)
MispredictCycles(mix, prof) ==
    Times(Times(Whole(mix["beq"]), Minus(Whole(1), prof.branch_predictor_accuracy)),
          prof.branch_mispredict_penalty_cycles)
Composed(mix, prof, isHw) ==
    Plus(BaseCycles(mix, prof, isHw, MixKeys),
         Plus(MissCycles(mix, prof), MispredictCycles(mix, prof)))

Misses(mix, prof) ==
    ~IsZero(Times(Accesses(mix), Minus(Whole(1), prof.l1_cache_hit_rate)))
\* prof with another energy per DRAM access
Dram(prof, picojoules) == [prof EXCEPT !.dram_energy_per_access_pj = picojoules]
acceleratedEnergy(mix, prof) == sim(mix, prof, TRUE).totalEnergyMj

\* C24: with expected cache misses that are not zero, the energy of the accelerated
\* estimate includes the penalty of the DRAM accesses, so it changes with the
\* profile's dram_energy_per_access_pj (here: it is more than with DRAM accesses
\* that cost nothing).
C24_DramEnergyCounts ==
    Misses(instructionMix, profile) =>
        Greater(results.hw.totalEnergyMj,
                acceleratedEnergy(instructionMix, Dram(profile, Zero)))
\* the default mix has loads and stores that miss, DRAM accesses cost energy, and
\* the accelerated energy is the same with DRAM accesses of twice the cost and of
\* no cost
C24_DramIgnored ==
    /\ instructionMix = defaultInstructionMix
    /\ Misses(instructionMix, profile)
    /\ Greater(profile.dram_energy_per_access_pj, Zero)
    /\ Same(results.hw.totalEnergyMj, acceleratedEnergy(instructionMix, Dram(profile, Zero)))
    /\ Same(results.hw.totalEnergyMj,
            acceleratedEnergy(instructionMix,
                              Dram(profile, Times(Whole(2), profile.dram_energy_per_access_pj))))


(***************************************************************************)
(* Execution of a program one instruction at a time, in program order.     *)
(***************************************************************************)
Machine(regs, mem) == [regs |-> regs, mem |-> mem]
\* a source register read and a destination register write on a register array
ReadReg(regs, r) == IF r \in {Undefined, Num(0)} THEN Num(0) ELSE ArrayGet(regs, r.n)
WriteReg(regs, rd, v) ==
    IF rd \in {Undefined, Num(0)} \/ v = Undefined THEN regs ELSE ArraySet(regs, rd.n, v)
Address(m, instr) == JsAdd(ReadReg(m.regs, instr.rs1), Nullish(instr.imm, Num(0)))
\* one instruction, reading the state the earlier ones left
Execute(m, instr) ==
    IF instr.op = OpAdd
    THEN Machine(WriteReg(m.regs, instr.rd,
                          JsAdd(ReadReg(m.regs, instr.rs1), ReadReg(m.regs, instr.rs2))), m.mem)
    ELSE IF instr.op = OpSub
    THEN Machine(WriteReg(m.regs, instr.rd,
                          JsSub(ReadReg(m.regs, instr.rs1), ReadReg(m.regs, instr.rs2))), m.mem)
    ELSE IF instr.op = OpAddi
    THEN Machine(WriteReg(m.regs, instr.rd,
                          JsAdd(ReadReg(m.regs, instr.rs1), Nullish(instr.imm, Num(0)))), m.mem)
    ELSE IF instr.op = OpLw
    THEN Machine(WriteReg(m.regs, instr.rd,
                          OrElse(MemGet(m.mem, Address(m, instr)), Num(0))), m.mem)
    ELSE IF instr.op = OpSw
    THEN Machine(m.regs, MemSet(m.mem, Address(m, instr),
                                Nullish(ReadReg(m.regs, instr.rs2), Num(0))))
    ELSE m
RECURSIVE ExecuteAll(_, _)
ExecuteAll(m, instrs) ==
    IF instrs = <<>> THEN m ELSE ExecuteAll(Execute(m, Head(instrs)), Tail(instrs))
Sequential == ExecuteAll(Machine(ResetRegisters, ResetMemory), instructions)

\* C25: for a program without beq and jal, once the pipeline has drained the
\* register file and the data memory are those that executing the instructions one
\* at a time, in program order, from the reset state gives.
C25_SequentialEquivalence ==
    (NoBranches /\ isFinished) =>
        /\ registerFile = Sequential.regs
        /\ dataMemory = Sequential.mem
\* the program "addi x3, x2, 4 / add x3, x1, x1 / sw x3, 4(x1)" has drained: in
\* program order the sw stores 512, the pipeline has stored 4
C25_StoredStale ==
    /\ NoBranches
    /\ isFinished
    /\ Len(instructions) = 3
    /\ MemGet(Sequential.mem, Num(BaseAddress + 4)) = Num(2 * BaseAddress)
    /\ MemGet(dataMemory, Num(BaseAddress + 4)) = Num(4)
    /\ registerFile = Sequential.regs


\* C26: for a program of n > 0 instructions without beq and jal, started from reset,
\* the simulation is finished exactly when the cycle counter is n + 5 + s, s being
\* the number of load-use stall steps: isFinished first holds after that many
\* clock steps and not before.
C26_DrainBound ==
    (NoBranches /\ Len(instructions) > 0) =>
        (isFinished <=> cycle = Len(instructions) + 5 + stalls)
\* three instructions and one stall: finished at cycle 9
C26_Witness ==
    /\ NoBranches
    /\ Len(instructions) = 3
    /\ stalls = 1
    /\ cycle = 9
    /\ isFinished
    /\ idle


\* the positions of the log that hold a write to address a
StoresTo(log, a) == {i \in DOMAIN log : log[i][1] = a}
Latest(positions) == CHOOSE i \in positions : \A j \in positions : j <= i
\* what a load of address a reads after the writes of the log: the value of the
\* latest write to a, else the reset value of a, else 0
Loaded(log, a) ==
    IF StoresTo(log, a) # {} THEN log[Latest(StoresTo(log, a))][2]
    ELSE IF a \in DOMAIN ResetMemory THEN ResetMemory[a]
    ELSE Num(0)
IsLoad(stage) ==
    /\ stage.instr # Null
    /\ stage.instr.op = OpLw
    /\ stage.address # Undefined

\* C27: the clock step in which a lw reads data memory gives it the value that the
\* latest sw before it in execution order wrote to its address, or the reset value
\* of the address (0 if it has none) when no sw wrote there; the value it read stays
\* its result whatever a later sw writes.
C27_StoreToLoad ==
    [][ /\ (Stepped /\ IsLoad(pipeline.ex)) =>
              pipeline'.mem.result = Loaded(stores, pipeline.ex.address)
        /\ (Stepped /\ IsLoad(pipeline.mem)) =>
              pipeline'.wb.result = pipeline.mem.result
      ]_vars
\* the latest sw wrote NaN to the address the lw now in Memory has read, and the
\* lw has read 0
C27_ReadZeroForNaN ==
    /\ IsLoad(pipeline.mem)
    /\ StoresTo(stores, pipeline.mem.address) # {}
    /\ Loaded(stores, pipeline.mem.address) = NaN
    /\ pipeline.mem.result = Num(0)


\* the kind of message shown for a load-use hazard
LoadUseKind == "DATA HAZARD: Load-Use"
\* the step was a stall step: a bubble in Execute, Decode and Fetch held
Stalled ==
    /\ pipeline'.ex.instr = Null
    /\ pipeline'.ex.isStall
    /\ pipeline'.id.instr = pipeline.id.instr
    /\ pipeline'.id.isStall
    /\ pipeline'.if = pipeline.if

\* C28: in every state that is not finished the message reports a load-use data
\* hazard exactly when the next clock step stalls: it puts a bubble into Execute
\* and holds Decode and Fetch.
C28_MessageAgreesWithStall ==
    [][ Stepped => ((hazardMessage.kind = LoadUseKind) <=> Stalled) ]_vars
\* the message reports the load-use hazard on x2 of the sample program, and no
\* forwarding path
C28_Witness ==
    /\ assemblyCode = sampleCode
    /\ ~isFinished
    /\ hazardMessage = [kind |-> LoadUseKind, reg |-> Num(2)]
    /\ forwardingPath = Null
    /\ stalls = 0


\* the stage holds an instruction with destination x0 and a result that is not 0
ZeroDest(stage) ==
    /\ stage.instr # Null
    /\ stage.instr.rd = Num(0)
    /\ stage.result \notin {Undefined, Num(0)}

\* C29: a source operand that is register 0 is 0 for the instruction that enters
\* Execute, also while an instruction in Execute or Memory has destination x0 and
\* a result that is not 0; a lw with destination x0 in Execute does not stall the
\* Decode instruction, whether or not that reads x0.
C29_ZeroRegisterNoHazard ==
    [][ /\ Executed =>
              \A k \in {1, 2} : Sources[k] = Num(0) => operands'[k] = Num(0)
        /\ ( /\ Stepped
             /\ pipeline.ex.instr # Null
             /\ pipeline.ex.instr.op = OpLw
             /\ pipeline.ex.instr.rd = Num(0)
             /\ pipeline.id.instr # Null ) =>
              /\ pipeline'.ex.instr = pipeline.id.instr
              /\ ~pipeline'.ex.isStall
              /\ ~pipeline'.id.isStall
      ]_vars
\* "add x3, x0, x0" is in Execute with both operands 0 and without a stall, behind
\* "addi x0, x0, 4" (result 4) and "lw x0, 0(x1)" (result 42)
C29_Witness ==
    /\ assemblyCode = ZeroDestText
    /\ stalls = 0
    /\ pipeline.ex.instr # Null
    /\ pipeline.ex.instr.op = OpAdd
    /\ operands = <<Num(0), Num(0)>>
    /\ pipeline.ex.result = Num(0)
    /\ ZeroDest(pipeline.mem)
    /\ ZeroDest(pipeline.wb)
    /\ pipeline.wb.instr.op = OpLw


\* C30: in every clock step of a simulation that is not finished, stall and flush
\* steps included, the new Writeback stage holds the instruction (and its index)
\* that was in Memory and the new Memory stage the one that was in Execute, and
\* the new Execute stage holds the Decode instruction or nothing: downstream of
\* Execute an instruction moves one stage per step and leaves after Writeback,
\* none is dropped, duplicated or overtaken.
C30_InOrderProgression ==
    [][ Stepped =>
            /\ pipeline'.wb.instr = pipeline.mem.instr
            /\ pipeline'.wb.pc = pipeline.mem.pc
            /\ pipeline'.wb.result = pipeline.mem.result
            /\ pipeline'.mem.instr = pipeline.ex.instr
            /\ pipeline'.mem.pc = pipeline.ex.pc
            /\ pipeline'.ex.instr \in {Null, pipeline.id.instr}
      ]_vars
\* after the stall of the sample program: the lw has reached Writeback, the bubble
\* of the stall step is in Memory and the addi it delayed is in Execute
C30_Witness ==
    /\ assemblyCode = sampleCode
    /\ stalls = 1
    /\ pipeline.wb.instr # Null
    /\ pipeline.wb.instr.op = OpLw
    /\ pipeline.wb.pc = Num(0)
    /\ pipeline.mem.instr = Null
    /\ pipeline.ex.instr # Null
    /\ pipeline.ex.pc = Num(1)
====
